---- MODULE Spec2Model ----
(***************************************************************************)
(* Erold MCP server: the HTTP request engine of lib/api-client.ts          *)
(* (request, get, post, patch, del), the error model of lib/errors.ts and  *)
(* the configuration provider of lib/config.ts.                            *)
(*                                                                         *)
(* One logical request is a small state machine: the synchronous prologue  *)
(* of request() up to the first `await fetch`, then one step per settled   *)
(* promise (fetch resolved, fetch rejected, abort, sleep elapsed).         *)
(*                                                                         *)
(* Text that the code inspects character by character (URLs, query         *)
(* strings, header values) is a sequence of one-character strings; text    *)
(* that the code only carries around (messages) is a TLA+ string.          *)
(***************************************************************************)
EXTENDS Integers, Sequences, FiniteSets, TLC

\* ------------------------------------------------------------------------
\* Program constants
\* ------------------------------------------------------------------------

DEFAULT_TIMEOUT == 30000

MAX_RETRIES == 3

RETRY_DELAY == 1000

DEFAULT_API_URL ==
  << "h","t","t","p","s",":","/","/","a","p","i",".","e","r","o","l","d",
     ".","d","e","v","/","a","p","i","/","v","1" >>

\* ------------------------------------------------------------------------
\* Bounds of the model
\* ------------------------------------------------------------------------

\* longest query-parameter mapping handed to get() in the query specification
MaxParams == 2

\* number of accessor calls a session makes
MaxRequests == 2

\* guideline tool calls that can wait for their fetch at the same time
MaxOverlap == 2

\* fetches of the guideline list in one run
MaxFetches == 2

\* advances of the clock in one run
MaxTicks == 2

\* ------------------------------------------------------------------------
\* JavaScript values (parsed JSON bodies, text bodies, `undefined`)
\* ------------------------------------------------------------------------

Undef == [t |-> "undefined"]

Null == [t |-> "null"]

Bool(b) == [t |-> "boolean", b |-> b]

Num(n) == [t |-> "number", n |-> n]

Str(s) == [t |-> "string", s |-> s]

Obj(o) == [t |-> "object", o |-> o]

\* an array, as the sequence of its elements
Arr(a) == [t |-> "array", a |-> a]

\* a JavaScript string whose single characters matter (URL and header text)
Txt(c) == [t |-> "text", c |-> c]

\* the value a parseInt() of a non-numeric string yields
NaN == [t |-> "NaN"]

\* property read `v?.k`: undefined on null, on primitives and on a missing key
Prop(v, k) ==
  IF v.t = "object" /\ k \in DOMAIN v.o THEN v.o[k] ELSE Undef

\* JavaScript truthiness, as used by `||`
Truthy(v) ==
  CASE v.t = "undefined" -> FALSE
    [] v.t = "null"      -> FALSE
    [] v.t = "boolean"   -> v.b
    [] v.t = "number"    -> v.n # 0
    [] v.t = "string"    -> v.s # ""
    [] v.t = "text"      -> v.c # << >>
    [] v.t = "NaN"       -> FALSE
    [] OTHER             -> TRUE

\* String(v) for the values an error message can take
MessageString(v) ==
  CASE v.t = "string"  -> v.s
    [] v.t = "number"  -> ToString(v.n)
    [] v.t = "boolean" -> (IF v.b THEN "true" ELSE "false")
    [] OTHER           -> "[object Object]"

\* ------------------------------------------------------------------------
\* lib/errors.ts: the error model
\* ------------------------------------------------------------------------

\* new ApiError(message, statusCode, details)
ApiError(message, statusCode, details) ==
  [cls |-> "ApiError", name |-> "ApiError", message |-> message,
   statusCode |-> statusCode, details |-> details]

\* a plain Error (or DOMException) with the given name; it has no statusCode
PlainError(name, message) ==
  [cls |-> "Error", name |-> name, message |-> message]

\* new ConfigError(message)
ConfigError(message) ==
  [cls |-> "ConfigError", name |-> "ConfigError", message |-> message]

\* a thrown value that is no Error: a string, a number, null, an object
NonError(v) == [cls |-> "value", v |-> v]

\* `error instanceof Error`
IsError(error) == error.cls \in {"ApiError", "ConfigError", "Error"}

\* ApiError.rateLimited(retryAfter): `retryAfter || 60`
rateLimited(retryAfter) ==
  ApiError("Rate limited. Try again in "
             \o ToString(IF Truthy(retryAfter) THEN retryAfter.n ELSE 60)
             \o " seconds.",
           429, Undef)

\* faulty variant: rate limits are not classified as retryable
isRetryableError_ServerOnly(error) ==
  IF error.cls = "ApiError"
    THEN error.statusCode >= 500
    ELSE error.cls = "Error" /\ error.name = "AbortError"

\* faulty variant: every failed response is classified as retryable
isRetryableError_AnyStatus(error) ==
  IF error.cls = "ApiError"
    THEN error.statusCode >= 400
    ELSE IsError(error) /\ error.name = "AbortError"

isRetryableError(error) ==
  IF error.cls = "ApiError"
    THEN error.statusCode >= 500 \/ error.statusCode = 429
    ELSE IsError(error) /\ error.name = "AbortError"

\* faulty variant: the status is left out of the display string
formatError_NoStatus(error) ==
  IF IsError(error) THEN error.message
  ELSE "An unexpected error occurred"

formatError(error) ==
  IF error.cls = "ApiError"
    THEN "API Error (" \o ToString(error.statusCode) \o "): " \o error.message
  ELSE IF IsError(error) THEN error.message
  ELSE "An unexpected error occurred"

\* ------------------------------------------------------------------------
\* Character-level text: String(), parseInt(), URLSearchParams
\* ------------------------------------------------------------------------

DigitChars == << "0","1","2","3","4","5","6","7","8","9" >>

IsDigit(c) == \E i \in 1..10 : DigitChars[i] = c

DigitVal(c) == (CHOOSE i \in 1..10 : DigitChars[i] = c) - 1

RECURSIVE NatChars(_)
\* decimal digits of a natural number
NatChars(n) ==
  IF n < 10 THEN << DigitChars[n + 1] >>
  ELSE NatChars(n \div 10) \o << DigitChars[(n % 10) + 1] >>

\* String(value) as get() applies it to a query-parameter value
StringOf(v) ==
  CASE v.t = "text"      -> v.c
    [] v.t = "number"    -> (IF v.n < 0 THEN << "-" >> \o NatChars(-(v.n))
                             ELSE NatChars(v.n))
    [] v.t = "boolean"   -> (IF v.b THEN << "t","r","u","e" >>
                             ELSE << "f","a","l","s","e" >>)
    [] v.t = "null"      -> << "n","u","l","l" >>
    [] v.t = "undefined" -> << "u","n","d","e","f","i","n","e","d" >>
    [] OTHER             -> << "[","o","b","j","e","c","t","]" >>

RECURSIVE LeadingDigits(_)
\* the longest prefix of decimal digits
LeadingDigits(cs) ==
  IF cs # << >> /\ IsDigit(Head(cs))
    THEN << Head(cs) >> \o LeadingDigits(Tail(cs))
    ELSE << >>

RECURSIVE DigitsValue(_, _)
DigitsValue(cs, acc) ==
  IF cs = << >> THEN acc
  ELSE DigitsValue(Tail(cs), acc * 10 + DigitVal(Head(cs)))

RECURSIVE SkipSpaces(_)
SkipSpaces(cs) ==
  IF cs # << >> /\ Head(cs) = " " THEN SkipSpaces(Tail(cs)) ELSE cs

\* parseInt(text): leading blanks, an optional sign, then decimal digits;
\* NaN when no digit follows
parseInt(cs) ==
  LET body   == SkipSpaces(cs)
      neg    == body # << >> /\ Head(body) = "-"
      signed == body # << >> /\ Head(body) \in {"-", "+"}
      digits == LeadingDigits(IF signed THEN Tail(body) ELSE body)
  IN  IF digits = << >> THEN NaN
      ELSE Num(IF neg THEN -DigitsValue(digits, 0) ELSE DigitsValue(digits, 0))

\* characters the form-urlencoded serializer leaves alone
Unreserved ==
  { "a","b","c","d","e","f","g","h","i","j","k","l","m","n","o","p","q","r",
    "s","t","u","v","w","x","y","z",
    "0","1","2","3","4","5","6","7","8","9", "*", "-", ".", "_" }

\* percent codes of the other characters of the alphabet used here
PercentCode(c) ==
  CASE c = "&" -> << "%","2","6" >>
    [] c = "=" -> << "%","3","D" >>
    [] c = "?" -> << "%","3","F" >>
    [] c = "/" -> << "%","2","F" >>
    [] c = "+" -> << "%","2","B" >>
    [] c = "%" -> << "%","2","5" >>

\* application/x-www-form-urlencoded serialisation of one character
UrlEncodeChar(c) ==
  IF c = " " THEN << "+" >>
  ELSE IF c \in Unreserved THEN << c >>
  ELSE PercentCode(c)

RECURSIVE UrlEncode(_)
UrlEncode(cs) ==
  IF cs = << >> THEN << >>
  ELSE UrlEncodeChar(Head(cs)) \o UrlEncode(Tail(cs))

RECURSIVE SearchParamsToString(_)
\* URLSearchParams.prototype.toString(): name=value pairs joined by "&"
SearchParamsToString(pairs) ==
  IF pairs = << >> THEN << >>
  ELSE UrlEncode(pairs[1][1]) \o << "=" >> \o UrlEncode(pairs[1][2])
       \o (IF Len(pairs) > 1
             THEN << "&" >> \o SearchParamsToString(Tail(pairs))
             ELSE << >>)

RECURSIVE AppendKept_Truthy(_)
\* faulty variant: `if (value)` drops every falsy value, 0 and false too
AppendKept_Truthy(params) ==
  IF params = << >> THEN << >>
  ELSE LET key   == params[1][1]
           value == params[1][2]
       IN  (IF Truthy(value)
              THEN << << key, StringOf(value) >> >>
              ELSE << >>)
           \o AppendKept_Truthy(Tail(params))

RECURSIVE AppendKept(_)
\* the forEach of get(): append every entry whose value is neither
\* undefined, null nor the empty string, String()-coerced
AppendKept(params) ==
  IF params = << >> THEN << >>
  ELSE LET key   == params[1][1]
           value == params[1][2]
       IN  (IF value # Undef /\ value # Null /\ value # Txt(<< >>)
              THEN << << key, StringOf(value) >> >>
              ELSE << >>)
           \o AppendKept(Tail(params))

\* the endpoint get() hands to request(): path plus query string, if any
GetUrl(endpoint, params) ==
  LET queryString == SearchParamsToString(AppendKept(params))
  IN  IF queryString # << >>
        THEN endpoint \o << "?" >> \o queryString
        ELSE endpoint

\* ------------------------------------------------------------------------
\* lib/config.ts
\* ------------------------------------------------------------------------

\* faulty variant: the tenant is not required
getConfig_TenantOptional(e) ==
  IF e.apiKey = << >>
    THEN [ok |-> FALSE,
          error |-> PlainError("Error",
            "EROLD_API_KEY environment variable is required.\n"
            \o "Get your API key from: Settings > API Keys in Erold")]
  ELSE [ok |-> TRUE,
        apiUrl |-> (IF e.apiUrl # << >> THEN e.apiUrl ELSE DEFAULT_API_URL),
        apiKey |-> e.apiKey,
        tenant |-> e.tenant]

\* getConfig(): an unset or empty variable is the empty text
getConfig(e) ==
  IF e.apiKey = << >>
    THEN [ok |-> FALSE,
          error |-> PlainError("Error",
            "EROLD_API_KEY environment variable is required.\n"
            \o "Get your API key from: Settings > API Keys in Erold")]
  ELSE IF e.tenant = << >>
    THEN [ok |-> FALSE,
          error |-> PlainError("Error",
            "EROLD_TENANT environment variable is required.\n"
            \o "Set this to your tenant ID or slug.")]
  ELSE [ok |-> TRUE,
        apiUrl |-> (IF e.apiUrl # << >> THEN e.apiUrl ELSE DEFAULT_API_URL),
        apiKey |-> e.apiKey,
        tenant |-> e.tenant]

\* ------------------------------------------------------------------------
\* lib/api-client.ts: pure parts of request()
\* ------------------------------------------------------------------------

\* faulty variant: the tenant prefix is computed once and kept
getTenantPath_Fixed(e) ==
  LET c == getConfig(e)
  IN  IF c.ok
        THEN [ok |-> TRUE,
              path |-> << "/","t","e","n","a","n","t","s","/" >>
                       \o << "a","c","m","e" >>]
        ELSE c

\* getTenantPath(): `/tenants/${config.tenant}`, or the error of getConfig
getTenantPath(e) ==
  LET c == getConfig(e)
  IN  IF c.ok
        THEN [ok |-> TRUE,
              path |-> << "/","t","e","n","a","n","t","s","/" >> \o c.tenant]
        ELSE c

\* no caller-supplied headers
NoHeaders == << >>

\* faulty variant: the client identifier is not sent
BuildHeaders_NoUserAgent(c, extra) ==
  extra @@ ("Content-Type" :> Str("application/json"))
        @@ ("X-API-Key" :> Txt(c.apiKey))

\* the headers of fetchOptions: the three fixed ones, then options.headers
BuildHeaders(c, extra) ==
  extra @@ ("Content-Type" :> Str("application/json"))
        @@ ("X-API-Key" :> Txt(c.apiKey))
        @@ ("User-Agent" :> Str("@erold/mcp-server/0.1.0"))

\* response.ok
ResponseOk(status) == status >= 200 /\ status <= 299

\* the error thrown for a 429 response
RateLimitError(resp) ==
  rateLimited(IF Truthy(resp.retryAfter) THEN parseInt(resp.retryAfter.c)
              ELSE Undef)

\* the error thrown for any other response that is not ok
HttpError(resp) ==
  LET errorData == resp.body
      m1 == Prop(Prop(errorData, "error"), "message")
      m2 == Prop(errorData, "message")
      message == IF Truthy(m1) THEN MessageString(m1)
                 ELSE IF Truthy(m2) THEN MessageString(m2)
                 ELSE "HTTP " \o ToString(resp.status)
  IN  ApiError(message, resp.status,
               Prop(Prop(errorData, "error"), "details"))

\* faulty variant: `responseData?.data ? ... : data` takes a falsy data
\* field for an absent one
Unwrap_Truthy(data) ==
  IF Truthy(Prop(data, "data")) THEN Prop(data, "data") ELSE data

\* the unwrapping of a successful response
Unwrap(data) ==
  IF Prop(data, "data") # Undef THEN Prop(data, "data") ELSE data

\* faulty variant: a successful body is returned with its envelope
HandleResponse_RawBody(resp) ==
  IF resp.status = 429
    THEN [throws |-> TRUE, error |-> RateLimitError(resp)]
  ELSE IF ~ResponseOk(resp.status)
    THEN [throws |-> TRUE, error |-> HttpError(resp)]
  ELSE [throws |-> FALSE, value |-> resp.body]

\* what the try block does with a response whose body has been read:
\* throw (429, not ok) or return the unwrapped body
HandleResponse(resp) ==
  IF resp.status = 429
    THEN [throws |-> TRUE, error |-> RateLimitError(resp)]
  ELSE IF ~ResponseOk(resp.status)
    THEN [throws |-> TRUE, error |-> HttpError(resp)]
  ELSE [throws |-> FALSE, value |-> Unwrap(resp.body)]

TimedOut == ApiError("Request timed out", 408, Undef)

\* faulty variant: an abort is not replaced by the 408 error
LastErrorOf_NoTimeout(error) == error

\* the value kept in lastError by the catch block
LastErrorOf(error) ==
  IF error.cls = "ApiError" /\ error.statusCode >= 400
     /\ error.statusCode < 500 /\ error.statusCode # 429
    THEN error
  ELSE IF error.cls = "Error" /\ error.name = "AbortError"
    THEN TimedOut
  ELSE error

\* faulty variant: the loop is left one failure too late
CatchDecision_LateBreak(error, att) ==
  IF error.cls = "ApiError" /\ error.statusCode >= 400
     /\ error.statusCode < 500 /\ error.statusCode # 429
    THEN [next |-> "throw", thrown |-> error]
  ELSE IF att > MAX_RETRIES
    THEN [next |-> "throw", thrown |-> LastErrorOf(error)]
  ELSE IF ~isRetryableError(error)
    THEN [next |-> "throw", thrown |-> error]
  ELSE [next |-> "sleep", delay |-> RETRY_DELAY * att]

\* faulty variant: exhausted retries end in a generic server error
CatchDecision_GenericFinal(error, att) ==
  IF error.cls = "ApiError" /\ error.statusCode >= 400
     /\ error.statusCode < 500 /\ error.statusCode # 429
    THEN [next |-> "throw", thrown |-> error]
  ELSE IF att = MAX_RETRIES
    THEN [next |-> "throw", thrown |-> ApiError("Server error", 500, Undef)]
  ELSE IF ~isRetryableError(error)
    THEN [next |-> "throw", thrown |-> error]
  ELSE [next |-> "sleep", delay |-> RETRY_DELAY * att]

\* faulty variant: every failure is retried until the attempts run out
CatchDecision_RetryAll(error, att) ==
  IF att = MAX_RETRIES
    THEN [next |-> "throw", thrown |-> LastErrorOf(error)]
  ELSE [next |-> "sleep", delay |-> RETRY_DELAY * att]

\* faulty variant: the wait does not grow with the attempt number
CatchDecision_FixedDelay(error, att) ==
  IF error.cls = "ApiError" /\ error.statusCode >= 400
     /\ error.statusCode < 500 /\ error.statusCode # 429
    THEN [next |-> "throw", thrown |-> error]
  ELSE IF att = MAX_RETRIES
    THEN [next |-> "throw", thrown |-> LastErrorOf(error)]
  ELSE IF ~isRetryableError(error)
    THEN [next |-> "throw", thrown |-> error]
  ELSE [next |-> "sleep", delay |-> RETRY_DELAY]

\* faulty variant: a rate limit is waited out for the default 60 seconds
CatchDecision_RateLimitWait(error, att) ==
  IF error.cls = "ApiError" /\ error.statusCode >= 400
     /\ error.statusCode < 500 /\ error.statusCode # 429
    THEN [next |-> "throw", thrown |-> error]
  ELSE IF att = MAX_RETRIES
    THEN [next |-> "throw", thrown |-> LastErrorOf(error)]
  ELSE IF ~isRetryableError(error)
    THEN [next |-> "throw", thrown |-> error]
  ELSE [next |-> "sleep",
        delay |-> IF error.cls = "ApiError" /\ error.statusCode = 429
                    THEN RETRY_DELAY * 60
                    ELSE RETRY_DELAY * att]

\* the catch block of request(): rethrow the error, leave the loop and
\* throw lastError, or sleep and go round again
CatchDecision(error, att) ==
  IF error.cls = "ApiError" /\ error.statusCode >= 400
     /\ error.statusCode < 500 /\ error.statusCode # 429
    THEN [next |-> "throw", thrown |-> error]
  ELSE IF att = MAX_RETRIES
    THEN [next |-> "throw", thrown |-> LastErrorOf(error)]
  ELSE IF ~isRetryableError(error)
    THEN [next |-> "throw", thrown |-> error]
  ELSE [next |-> "sleep", delay |-> RETRY_DELAY * att]

\* the loop condition of request()
LoopContinues(att) == att <= MAX_RETRIES

\* ------------------------------------------------------------------------
\* Inputs: environments, requests and what the network can answer
\* ------------------------------------------------------------------------

ApiKeyText == << "k","e","y" >>

TenantText == << "a","c","m","e" >>

CustomUrlText == << "h","t","t","p",":","/","/","x" >>

\* process.env at start-up: complete (with and without a base URL),
\* without the API key, without the tenant
Envs ==
  { [apiKey |-> ApiKeyText, tenant |-> TenantText, apiUrl |-> << >>],
    [apiKey |-> ApiKeyText, tenant |-> TenantText, apiUrl |-> CustomUrlText],
    [apiKey |-> << >>,      tenant |-> TenantText, apiUrl |-> << >>],
    [apiKey |-> ApiKeyText, tenant |-> << >>,      apiUrl |-> << >>] }

\* the path an accessor passes to a wrapper
Endpoint == << "/","t","a","s","k","s" >>

ParamKeys == { << "q" >>, << "l","i","m","i","t" >>, << "a","&","b" >> }

ParamValues ==
  { Undef, Null, Txt(<< >>), Txt(<< "a"," ","b" >>), Txt(<< "x","&","y" >>),
    Num(0), Num(10), Bool(FALSE), Bool(TRUE) }

\* ordered mappings with pairwise different keys, at most n entries
Mappings(n) ==
  { m \in UNION { [1..k -> ParamKeys \X ParamValues] : k \in 0..n } :
      \A i, j \in 1..Len(m) : i # j => m[i][1] # m[j][1] }

\* the mappings the engine specification issues GET requests with
EngineParams ==
  { << >>,
    << << << "q" >>, Txt(<< "a"," ","b" >>) >> >>,
    << << << "q" >>, Undef >>, << << "l","i","m","i","t" >>, Num(10) >> >> }

PostData == { Obj([title |-> Str("T")]) }

SuccessStatuses == { 200, 201 }

\* statuses that are not ok and not 429
FailureStatuses == { 304, 400, 404, 500, 503 }

\* bodies of successful responses: with and without a data envelope
JsonBodies ==
  { Null,
    Obj(<< >>),
    Obj([id |-> Str("1")]),
    Obj([data |-> Null]),
    Obj([data |-> Num(0)]),
    Obj([data |-> Bool(FALSE)]),
    Obj([data |-> Str("X")]),
    Obj([data |-> Obj([data |-> Str("Y")])]) }

\* bodies of failed responses: error.message, message, neither
ErrorBodies ==
  { Obj(<< >>),
    Obj([error |-> Obj([message |-> Str("Validation failed"),
                        details |-> Obj([field |-> Str("title")])])]),
    Obj([error |-> Obj([message |-> Str("")]), message |-> Str("outer")]),
    Obj([message |-> Str("Server error")]) }

TextBodies == { Str("OK"), Str("") }

\* retry-after header: absent (null), seconds, or an HTTP date
RetryAfterValues ==
  { Null, Txt(<< "5" >>), Txt(<< "0" >>), Txt(<< "W","e","d" >>) }

JsonResponse(st, b, ra) ==
  [status |-> st, json |-> TRUE, body |-> b, retryAfter |-> ra]

TextResponse(st, b, ra) ==
  [status |-> st, json |-> FALSE, body |-> b, retryAfter |-> ra]

\* responses whose body has been read as the content type declares
Responses ==
  { JsonResponse(st, b, Null) : st \in SuccessStatuses, b \in JsonBodies }
  \cup { TextResponse(st, b, Null) : st \in SuccessStatuses, b \in TextBodies }
  \cup { JsonResponse(st, b, Null) : st \in FailureStatuses, b \in ErrorBodies }
  \cup { TextResponse(st, Str("OK"), Null) : st \in FailureStatuses }
  \cup { JsonResponse(429, Obj(<< >>), ra) : ra \in RetryAfterValues }
  \cup { TextResponse(429, Str("OK"), ra) : ra \in RetryAfterValues }

\* fetch() rejecting for a network-level reason (DNS, connection refused)
FetchFailed == PlainError("TypeError", "fetch failed")

\* response.json() rejecting on a body that is no JSON
BodyUnreadable == PlainError("SyntaxError", "Unexpected end of JSON input")

\* errors other than an abort that the try block can throw
RawErrors == { FetchFailed, BodyUnreadable }

AbortError == PlainError("AbortError", "This operation was aborted")

NoResponse == [status |-> 0, json |-> FALSE, body |-> Undef,
               retryAfter |-> Null]

NoError == [cls |-> "none"]

\* values handed to isRetryableError and formatError: ApiErrors of several
\* statuses, other Errors, ConfigErrors, and values that are no Error
ThrownValues ==
  { ApiError(m, st, Undef) :
      m \in {"Task not found", "Server error"},
      st \in {400, 401, 404, 408, 429, 500, 502, 503} }
  \cup { PlainError(n, m) :
           n \in {"Error", "TypeError", "SyntaxError", "AbortError"},
           m \in {"Something broke", "The operation was aborted"} }
  \cup { ConfigError("Bad config"), ConfigError("Missing API key") }
  \cup { NonError(Str("string error")), NonError(Num(42)), NonError(Null),
         NonError(Undef),
         NonError(Obj([name |-> Str("AbortError"), message |-> Str("x")])) }

NoCall == [fn |-> "none"]

\* the slots of concurrently running guideline tool calls
Slots == 1..MaxOverlap

\* no guideline tool call waits in this slot
NoGCall == [tool |-> "none"]

\* nothing has settled
NoOutcome == [kind |-> "none"]

\* the two accessor calls of get_project_stats
Legs == { "get", "stats" }

\* the accessor call has not been made
NoLeg == [st |-> "idle"]

\* Promise.all has not been called
NoJoin == [st |-> "none"]

\* the projects add_tech_command is invoked for
TechProjects == { "p1", "p2" }

\* the tech info the API stores before any invocation: one project with a
\* command list, one without
StoredTechInfo ==
  [p \in TechProjects |->
     IF p = "p1"
       THEN Obj([commands |->
              Arr(<< Obj([name |-> Str("Build"),
                          command |-> Str("npm run build")]) >>)])
       ELSE Obj([notes |-> Str("none")])]

\* no add_tech_command invocation runs in this slot
NoTechCall == [pc |-> "idle"]

\* createServer() has not run
NoServer == [created |-> FALSE, started |-> FALSE, tools |-> {}]

\* request() has not read the configuration
NoConfig == [ok |-> FALSE]

\* the arguments of one fetch invocation
FetchCall(u, m, b, h) ==
  [url |-> u, method |-> m, body |-> b, headers |-> h]

NoValue == [t |-> "none"]

\* a second key and a second tenant, for a process.env that changes
OtherKeyText == << "k","2" >>

OtherTenantText == << "b","e","t","a" >>

\* what process.env can hold while the server runs
SessionEnvs ==
  Envs \cup
  { [apiKey |-> OtherKeyText, tenant |-> TenantText, apiUrl |-> << >>],
    [apiKey |-> ApiKeyText, tenant |-> OtherTenantText, apiUrl |-> << >>],
    [apiKey |-> OtherKeyText, tenant |-> OtherTenantText,
     apiUrl |-> CustomUrlText] }

\* arguments of the accessors
TaskId == << "t","1" >>

ProjectId == << "p","1" >>

TaskFilters == { << >>, << << << "l","i","m","i","t" >>, Num(10) >> >> }

TaskData == Obj([title |-> Str("T")])

ProjectData == Obj([name |-> Str("N")])

\* a project as the API sends it and stores it: the name is in `title`
WireProject == Obj([id |-> Str("p1"), title |-> Str("N")])

\* what the API answers in the session specification
SessionResponses ==
  { JsonResponse(200, Obj([data |-> WireProject]), Null),
    JsonResponse(200, Obj([data |-> Arr(<< WireProject >>)]), Null),
    JsonResponse(404, Obj([message |-> Str("Not found")]), Null),
    JsonResponse(500, Obj(<< >>), Null) }

\* ------------------------------------------------------------------------
\* State
\* ------------------------------------------------------------------------

VARIABLES
  env,        \* process.env (the three variables getConfig reads)
  pc,         \* idle, fetching, sleeping, resolved, rejected
  method,     \* options.method of the logical request
  params,     \* the mapping given to get()
  url,        \* the URL every fetch of this request is called with
  reqBody,    \* options.body
  timerArmed, \* the setTimeout of request() is pending
  aborted,    \* controller.signal.aborted
  attempt,    \* loop variable of request()
  calls,      \* number of fetch invocations so far
  lastError,  \* lastError of request()
  lastResp,   \* response of the current loop iteration, if any
  log,        \* outcome of every finished attempt, in order
  waits,      \* the delays slept so far, in order
  result,     \* value the returned promise resolved with
  thrown,     \* value the returned promise rejected with
  config,     \* config of request(), as getConfig() returned it
  headers,    \* headers of fetchOptions
  sent,       \* the fetch invocations of the current call, in order
  requests,   \* number of accessor or wrapper calls made so far
  previous,   \* what getConfig() returned to the call before this one
  accessor,   \* the accessor or wrapper the current call went through
  call,       \* last application of isRetryableError or formatError
  tool,       \* name of the tool whose execute() is running
  hpc,        \* execute(): idle, awaiting (the accessor), settled
  awaited,    \* how the accessor call awaited by execute() settled
  output,     \* how the promise of execute() settled
  cliPc,      \* bin/erold-mcp.ts: loaded, validated, starting, running,
              \* failed, exited
  stderr,     \* the argument lists of the console.error calls, in order
  exits,      \* the codes process.exit was called with, in order
  server,     \* the FastMCP instance of createServer(), if any
  registrations, \* the calls of tool registration functions, in order
  startError, \* what the promise of startServer() rejected with
  clock,      \* Date.now(), in milliseconds since the process started
  ticks,      \* number of times the clock has been advanced
  guidelinesCache, \* tools/guidelines.ts: guidelinesCache
  cacheTimestamp,  \* tools/guidelines.ts: cacheTimestamp
  gCalls,     \* guideline tool calls waiting for their fetch, by slot
  gFetches,   \* number of fetches of the guideline list issued so far
  gServed,    \* how the last finished fetchAllGuidelines() got its list
  legs,       \* get_project_stats: the promises of projects.get and
              \* projects.stats
  joined,     \* get_project_stats: the promise of Promise.all
  statsOutput, \* get_project_stats: how the promise of execute() settled
  techStore,  \* the tech info of each project as the API stores it
  techCalls   \* add_tech_command invocations under way, by slot

\* execute() of a tool
handlerVars == << tool, hpc, awaited, output >>

\* the CLI entry point and the server
bootVars == << cliPc, stderr, exits, server, registrations, startError >>

\* the guideline tools and their module-level cache
guideVars == << clock, ticks, guidelinesCache, cacheTimestamp, gCalls,
                gFetches, gServed >>

\* get_project_stats: the two accessor calls, their join and the return
joinVars == << legs, joined, statsOutput >>

\* add_tech_command: the stored tech info and the invocations under way
techVars == << techStore, techCalls >>

\* the variables the request engine does not touch
otherVars == << call, handlerVars, bootVars, guideVars, joinVars, techVars >>

vars == << env, pc, method, params, url, reqBody, timerArmed, aborted,
           attempt, calls, lastError, lastResp, log, waits, result, thrown,
           config, headers, sent, requests, previous, accessor, call,
           tool, hpc, awaited, output,
           cliPc, stderr, exits, server, registrations, startError,
           clock, ticks, guidelinesCache, cacheTimestamp, gCalls, gFetches,
           gServed, legs, joined, statsOutput, techStore, techCalls >>

Init ==
  /\ env \in Envs
  /\ pc = "idle"
  /\ method = "" /\ params = << >> /\ url = << >> /\ reqBody = NoValue
  /\ timerArmed = FALSE /\ aborted = FALSE
  /\ attempt = 0 /\ calls = 0
  /\ lastError = NoError /\ lastResp = NoResponse
  /\ log = << >> /\ waits = << >>
  /\ result = NoValue /\ thrown = NoError
  /\ config = NoConfig /\ headers = NoHeaders
  /\ sent = << >> /\ requests = 0 /\ accessor = ""
  /\ previous = NoConfig
  /\ call = NoCall
  /\ tool = "" /\ hpc = "idle" /\ awaited = NoOutcome /\ output = NoOutcome
  /\ cliPc = "loaded" /\ stderr = << >> /\ exits = << >>
  /\ server = NoServer /\ registrations = << >> /\ startError = NoError
  /\ clock = 0 /\ ticks = 0
  /\ guidelinesCache = Null /\ cacheTimestamp = 0
  /\ gCalls = [s \in Slots |-> NoGCall]
  /\ gFetches = 0 /\ gServed = NoOutcome
  /\ legs = [l \in Legs |-> NoLeg]
  /\ joined = NoJoin /\ statsOutput = NoOutcome
  /\ techStore = StoredTechInfo
  /\ techCalls = [s \in Slots |-> NoTechCall]

\* ------------------------------------------------------------------------
\* request(): from the call to the first `await fetch`
\* ------------------------------------------------------------------------

request(endpoint, m, b, h) ==
  LET c == getConfig(env)
  IN  /\ pc = "idle"
      /\ method' = m
      /\ reqBody' = b
      /\ requests' = requests + 1
      /\ IF ~c.ok
           THEN /\ pc' = "rejected"
                /\ thrown' = c.error
                /\ UNCHANGED << url, timerArmed, attempt, calls, config,
                                headers, sent >>
           ELSE /\ config' = c
                /\ url' = c.apiUrl \o endpoint
                /\ headers' = BuildHeaders(c, h)
                /\ timerArmed' = TRUE
                /\ attempt' = 1
                /\ calls' = 1
                /\ sent' = Append(sent, FetchCall(url', m, b, headers'))
                /\ pc' = "fetching"
                /\ UNCHANGED thrown
      /\ UNCHANGED << env, aborted, lastError, lastResp, log, waits, result,
                      previous >>
      /\ UNCHANGED otherVars

\* JSON.stringify(data), kept as the value it denotes
Stringify(data) == [t |-> "json", v |-> data]

get(endpoint, p) ==
  /\ params' = p
  /\ request(GetUrl(endpoint, p), "GET", NoValue, NoHeaders)

post(endpoint, data) ==
  /\ request(endpoint, "POST", Stringify(data), NoHeaders)
  /\ UNCHANGED params

patch(endpoint, data) ==
  /\ request(endpoint, "PATCH", Stringify(data), NoHeaders)
  /\ UNCHANGED params

del(endpoint) ==
  /\ request(endpoint, "DELETE", NoValue, NoHeaders)
  /\ UNCHANGED params

\* ------------------------------------------------------------------------
\* request(): the retry loop, one step per settled promise
\* ------------------------------------------------------------------------

\* the catch block, entered with the error of the current attempt
Catch(error) ==
  LET d == CatchDecision(error, attempt)
  IN  /\ timerArmed' = FALSE
      /\ lastError' = LastErrorOf(error)
      /\ IF d.next = "throw"
           THEN /\ pc' = "rejected"
                /\ thrown' = d.thrown
                /\ UNCHANGED waits
           ELSE /\ pc' = "sleeping"
                /\ waits' = Append(waits, d.delay)
                /\ UNCHANGED thrown
      /\ UNCHANGED << result, attempt, calls >>

\* fetch resolves and the body is read
FetchResolves(resp) ==
  /\ pc = "fetching"
  /\ ~aborted
  /\ lastResp' = resp
  /\ log' = Append(log, [kind |-> "response", status |-> resp.status])
  /\ LET h == HandleResponse(resp)
     IN  IF h.throws
           THEN Catch(h.error)
           ELSE /\ timerArmed' = FALSE
                /\ pc' = "resolved"
                /\ result' = h.value
                /\ UNCHANGED << lastError, waits, thrown, attempt, calls >>
  /\ UNCHANGED << env, method, params, url, reqBody, aborted >>
  /\ UNCHANGED << config, headers, sent, requests, previous, accessor >>
  /\ UNCHANGED otherVars

\* fetch, or the reading of the body, rejects with an error that is no abort
AttemptThrows(error) ==
  /\ pc = "fetching"
  /\ ~aborted
  /\ lastResp' = NoResponse
  /\ log' = Append(log, [kind |-> (IF error = FetchFailed THEN "network"
                                   ELSE "body"),
                         status |-> 0])
  /\ Catch(error)
  /\ UNCHANGED << env, method, params, url, reqBody, aborted >>
  /\ UNCHANGED << config, headers, sent, requests, previous, accessor >>
  /\ UNCHANGED otherVars

\* the timer set before the loop fires: controller.abort()
TimeoutFires ==
  /\ timerArmed
  /\ timerArmed' = FALSE
  /\ aborted' = TRUE
  /\ UNCHANGED << env, pc, method, params, url, reqBody, attempt, calls,
                  lastError, lastResp, log, waits, result, thrown >>
  /\ UNCHANGED << config, headers, sent, requests, previous, accessor >>
  /\ UNCHANGED otherVars

\* a fetch whose signal is aborted rejects with the AbortError
FetchAborted ==
  /\ pc = "fetching"
  /\ aborted
  /\ lastResp' = NoResponse
  /\ log' = Append(log, [kind |-> "abort", status |-> 0])
  /\ Catch(AbortError)
  /\ UNCHANGED << env, method, params, url, reqBody, aborted >>
  /\ UNCHANGED << config, headers, sent, requests, previous, accessor >>
  /\ UNCHANGED otherVars

\* the backoff sleep ends: attempt++, loop test, next fetch
SleepDone ==
  /\ pc = "sleeping"
  /\ attempt' = attempt + 1
  /\ IF LoopContinues(attempt + 1)
       THEN /\ pc' = "fetching"
            /\ calls' = calls + 1
            /\ sent' = Append(sent, FetchCall(url, method, reqBody, headers))
            /\ UNCHANGED thrown
       ELSE /\ pc' = "rejected"
            /\ thrown' = lastError
            /\ UNCHANGED << calls, sent >>
  /\ UNCHANGED << env, method, params, url, reqBody, timerArmed, aborted,
                  lastError, lastResp, log, waits, result >>
  /\ UNCHANGED << config, headers, requests, previous, accessor >>
  /\ UNCHANGED otherVars

GetCall == \E p \in EngineParams : get(Endpoint, p) /\ accessor' = "get"

PostCall == \E d \in PostData : post(Endpoint, d) /\ accessor' = "post"

PatchCall == \E d \in PostData : patch(Endpoint, d) /\ accessor' = "patch"

DelCall == del(Endpoint) /\ accessor' = "del"

Responds == \E resp \in Responses : FetchResolves(resp)

Throws == \E e \in RawErrors : AttemptThrows(e)

Next ==
  \/ GetCall
  \/ PostCall
  \/ PatchCall
  \/ DelCall
  \/ Responds
  \/ Throws
  \/ TimeoutFires
  \/ FetchAborted
  \/ SleepDone

Spec == Init /\ [][Next]_vars

\* request() called with options.headers: every choice of overrides
CallerHeaders ==
  LET values == ("Content-Type" :> Str("text/plain"))
                @@ ("User-Agent" :> Str("custom-agent/1.0"))
                @@ ("X-API-Key" :> Txt(<< "o","t","h","e","r" >>))
                @@ ("Accept" :> Str("application/json"))
  IN  { [k \in names |-> values[k]] : names \in SUBSET DOMAIN values }

RequestCall ==
  \E h \in CallerHeaders :
    /\ request(Endpoint, "GET", NoValue, h)
    /\ accessor' = "request"
    /\ UNCHANGED params

HeaderResponds ==
  \E resp \in { JsonResponse(200, Obj([data |-> Str("X")]), Null),
                 JsonResponse(500, Obj(<< >>), Null) } :
    FetchResolves(resp)

HeaderNext ==
  \/ RequestCall
  \/ HeaderResponds
  \/ Throws
  \/ TimeoutFires
  \/ FetchAborted
  \/ SleepDone

HeaderSpec == Init /\ [][HeaderNext]_vars

\* the query-string specification: get() applied to every bounded mapping
QueryCall ==
  \E p \in Mappings(MaxParams) : get(Endpoint, p) /\ accessor' = "get"

QueryNext == QueryCall

QuerySpec == Init /\ [][QueryNext]_vars

\* ------------------------------------------------------------------------
\* lib/errors.ts applied to thrown values
\* ------------------------------------------------------------------------

engineVars == << env, pc, method, params, url, reqBody, timerArmed, aborted,
                 attempt, calls, lastError, lastResp, log, waits, result,
                 thrown, config, headers, sent, requests, previous, accessor >>

IsRetryableErrorCall ==
  \E e \in ThrownValues :
    /\ call' = [fn |-> "isRetryableError", arg |-> e,
                bool |-> isRetryableError(e)]
    /\ UNCHANGED << engineVars, handlerVars, bootVars, guideVars, joinVars, techVars >>

FormatErrorCall ==
  \E e \in ThrownValues :
    /\ call' = [fn |-> "formatError", arg |-> e, text |-> formatError(e)]
    /\ UNCHANGED << engineVars, handlerVars, bootVars, guideVars, joinVars, techVars >>

ErrorNext == IsRetryableErrorCall \/ FormatErrorCall

ErrorSpec == Init /\ [][ErrorNext]_vars

\* ------------------------------------------------------------------------
\* lib/api-client.ts: the accessors, called one after another by a server
\* whose process.env can change
\* ------------------------------------------------------------------------

\* getTenantPath() throws inside the accessor: nothing is requested
AccessorThrows(error) ==
  /\ pc = "idle"
  /\ pc' = "rejected"
  /\ thrown' = error
  /\ requests' = requests + 1
  /\ UNCHANGED << env, method, params, url, reqBody, timerArmed, aborted,
                  attempt, calls, lastError, lastResp, log, waits, result,
                  config, headers, sent, previous >>
  /\ UNCHANGED otherVars

tasks_list ==
  \E p \in TaskFilters :
    LET tp == getTenantPath(env)
    IN  /\ accessor' = "tasks.list"
        /\ IF tp.ok
             THEN get(tp.path \o << "/","t","a","s","k","s" >>, p)
             ELSE AccessorThrows(tp.error)

tasks_create ==
  LET tp == getTenantPath(env)
  IN  /\ accessor' = "tasks.create"
      /\ IF tp.ok
           THEN post(tp.path \o << "/","p","r","o","j","e","c","t","s","/" >>
                     \o ProjectId \o << "/","t","a","s","k","s" >>, TaskData)
           ELSE AccessorThrows(tp.error)

tasks_update ==
  LET tp == getTenantPath(env)
  IN  /\ accessor' = "tasks.update"
      /\ IF tp.ok
           THEN patch(tp.path \o << "/","t","a","s","k","s","/" >> \o TaskId,
                      TaskData)
           ELSE AccessorThrows(tp.error)

tasks_delete ==
  LET tp == getTenantPath(env)
  IN  /\ accessor' = "tasks.delete"
      /\ IF tp.ok
           THEN del(tp.path \o << "/","t","a","s","k","s","/" >> \o TaskId)
           ELSE AccessorThrows(tp.error)

projects_list ==
  LET tp == getTenantPath(env)
  IN  /\ accessor' = "projects.list"
      /\ IF tp.ok
           THEN get(tp.path \o << "/","p","r","o","j","e","c","t","s" >>,
                    << >>)
           ELSE AccessorThrows(tp.error)

projects_get ==
  LET tp == getTenantPath(env)
  IN  /\ accessor' = "projects.get"
      /\ IF tp.ok
           THEN get(tp.path \o << "/","p","r","o","j","e","c","t","s","/" >>
                    \o ProjectId, << >>)
           ELSE AccessorThrows(tp.error)

\* { ...data, status: 'planning' }
projects_create ==
  LET tp == getTenantPath(env)
  IN  /\ accessor' = "projects.create"
      /\ IF tp.ok
           THEN post(tp.path \o << "/","p","r","o","j","e","c","t","s" >>,
                     Obj(("status" :> Str("planning")) @@ ProjectData.o))
           ELSE AccessorThrows(tp.error)

projects_update ==
  LET tp == getTenantPath(env)
  IN  /\ accessor' = "projects.update"
      /\ IF tp.ok
           THEN patch(tp.path \o << "/","p","r","o","j","e","c","t","s","/" >>
                      \o ProjectId, ProjectData)
           ELSE AccessorThrows(tp.error)

tenants_list ==
  /\ accessor' = "tenants.list"
  /\ get(<< "/","t","e","n","a","n","t","s" >>, << >>)

user_me ==
  /\ accessor' = "user.me"
  /\ get(<< "/","m","e" >>, << >>)

\* the accessors whose path starts with getTenantPath()
TenantScoped ==
  { "tasks.list", "tasks.create", "tasks.update", "tasks.delete",
    "projects.list", "projects.get", "projects.create", "projects.update" }

AccessorCall ==
  /\ requests < MaxRequests
  /\ \/ tasks_list
     \/ tasks_create
     \/ tasks_update
     \/ tasks_delete
     \/ projects_list
     \/ projects_get
     \/ projects_create
     \/ projects_update
     \/ tenants_list
     \/ user_me

\* the promise has settled and its awaiter runs on: the next call of
\* request() has its own controller, timer, loop variable and lastError
CallerContinues ==
  /\ pc \in {"resolved", "rejected"}
  /\ pc' = "idle"
  /\ method' = "" /\ params' = << >> /\ url' = << >> /\ reqBody' = NoValue
  /\ timerArmed' = FALSE /\ aborted' = FALSE
  /\ attempt' = 0 /\ calls' = 0
  /\ lastError' = NoError /\ lastResp' = NoResponse
  /\ log' = << >> /\ waits' = << >>
  /\ result' = NoValue /\ thrown' = NoError
  /\ config' = NoConfig /\ headers' = NoHeaders
  /\ sent' = << >>
  /\ previous' = config
  /\ accessor' = ""
  /\ UNCHANGED << env, requests >>
  /\ UNCHANGED otherVars

\* process.env is assigned to between two ticks of the event loop
EnvChanges ==
  /\ \E e \in SessionEnvs : e # env /\ env' = e
  /\ UNCHANGED << pc, method, params, url, reqBody, timerArmed, aborted,
                  attempt, calls, lastError, lastResp, log, waits, result,
                  thrown, config, headers, sent, requests, previous, accessor >>
  /\ UNCHANGED otherVars

SessionResponds == \E resp \in SessionResponses : FetchResolves(resp)

SessionNext ==
  \/ AccessorCall
  \/ SessionResponds
  \/ Throws
  \/ TimeoutFires
  \/ FetchAborted
  \/ SleepDone
  \/ CallerContinues
  \/ EnvChanges

SessionSpec == Init /\ [][SessionNext]_vars

\* ------------------------------------------------------------------------
\* tools/tasks.ts, tools/projects.ts: execute() of four tools
\* ------------------------------------------------------------------------

Tools ==
  { "list_tasks", "get_task", "create_task", "list_projects", "list_vault" }

\* a || b
Or(a, b) == IF Truthy(a) THEN a ELSE b

\* a ?? b
Nullish(a, b) == IF a.t \in {"undefined", "null"} THEN b ELSE a

\* reading property k of null or undefined
TypeErrorOn(v, k) ==
  PlainError("TypeError",
    "Cannot read properties of "
    \o (IF v.t = "null" THEN "null" ELSE "undefined")
    \o " (reading '" \o k \o "')")

Threw(error) == [throws |-> TRUE, error |-> error]

Returned(value) == [throws |-> FALSE, value |-> value]

\* the callback of taskList.map in list_tasks
FormatTask(task) ==
  Obj([id |-> Prop(task, "id"),
       title |-> Prop(task, "title"),
       status |-> Prop(task, "status"),
       priority |-> Prop(task, "priority"),
       project |-> Or(Prop(task, "projectName"), Prop(task, "projectId")),
       assignee |-> Or(Or(Prop(task, "assigneeName"),
                          Prop(task, "assignedTo")), Str("Unassigned")),
       dueDate |-> Or(Prop(task, "dueDate"), Str("No due date"))])

\* the callback of projectList.map in list_projects
FormatProject(project) ==
  Obj([id |-> Prop(project, "id"),
       name |-> Prop(project, "name"),
       slug |-> Or(Prop(project, "slug"), Null),
       status |-> Prop(project, "status"),
       taskCount |-> Nullish(Prop(project, "taskCount"), Num(0)),
       completedTasks |-> Nullish(Prop(project, "completedTasks"), Num(0))])

\* the try block of list_tasks after `await tasks.list(...)` gave v
list_tasks_try(v) ==
  IF v.t \in {"null", "undefined"} THEN Threw(TypeErrorOn(v, "length"))
  ELSE IF v.t # "array"
    THEN Threw(PlainError("TypeError", "taskList.map is not a function"))
  ELSE IF Len(v.a) = 0
    THEN Returned(Str("No tasks found matching the criteria."))
  ELSE Returned(Stringify(Arr([i \in 1..Len(v.a) |-> FormatTask(v.a[i])])))

\* the try block of get_task after `await tasks.get(...)` gave v
get_task_try(v) ==
  IF v.t \in {"null", "undefined"} THEN Threw(TypeErrorOn(v, "id"))
  ELSE Returned(Stringify(Obj(
    [id |-> Prop(v, "id"),
     title |-> Prop(v, "title"),
     description |-> Or(Prop(v, "description"), Str("No description")),
     status |-> Prop(v, "status"),
     priority |-> Prop(v, "priority"),
     project |-> Or(Prop(v, "projectName"), Prop(v, "projectId")),
     assignee |-> Or(Or(Prop(v, "assigneeName"), Prop(v, "assignedTo")),
                     Str("Unassigned")),
     dueDate |-> Or(Prop(v, "dueDate"), Str("No due date")),
     tags |-> Or(Prop(v, "tags"), Arr(<< >>)),
     progress |-> Or(Prop(v, "progress"), Num(0)),
     timeEstimate |->
       (IF Truthy(Prop(v, "timeEstimate"))
          THEN Str(MessageString(Prop(v, "timeEstimate")) \o "h")
          ELSE Str("Not estimated")),
     timeLogged |->
       (IF Truthy(Prop(v, "timeLogged"))
          THEN Str(MessageString(Prop(v, "timeLogged")) \o "h")
          ELSE Str("No time logged")),
     blockedReason |-> Or(Prop(v, "blockedReason"), Null),
     createdAt |-> Prop(v, "createdAt"),
     updatedAt |-> Prop(v, "updatedAt")])))

\* the try block of create_task after `await tasks.create(...)` gave v
create_task_try(v) ==
  IF v.t \in {"null", "undefined"} THEN Threw(TypeErrorOn(v, "id"))
  ELSE Returned(Stringify(Obj(
    [success |-> Bool(TRUE),
     message |-> Str("Task created successfully"),
     task |-> Obj([id |-> Prop(v, "id"),
                   title |-> Prop(v, "title"),
                   status |-> Prop(v, "status"),
                   priority |-> Prop(v, "priority"),
                   projectId |-> Prop(v, "projectId")])])))

\* the try block of list_projects after `await projects.list(...)` gave v
list_projects_try(v) ==
  IF v.t \in {"null", "undefined"} THEN Threw(TypeErrorOn(v, "length"))
  ELSE IF v.t # "array"
    THEN Threw(PlainError("TypeError", "projectList.map is not a function"))
  ELSE IF Len(v.a) = 0
    THEN Returned(Str("No projects found."))
  ELSE Returned(Stringify(Arr([i \in 1..Len(v.a) |->
                                FormatProject(v.a[i])])))

\* faulty variant: the entry is passed on as it came
FormatVaultEntry_WithValue(entry) == entry

\* the callback of entries.map in list_vault
FormatVaultEntry(entry) ==
  Obj([id |-> Prop(entry, "id"),
       key |-> Prop(entry, "key"),
       category |-> Prop(entry, "category"),
       environment |-> Prop(entry, "environment"),
       description |-> Or(Prop(entry, "description"), Str("")),
       updatedAt |-> Prop(entry, "updatedAt")])

\* the try block of list_vault after `await vault.list(params.projectId)`
\* gave v, with params.projectId = 'p1'
list_vault_try(v) ==
  IF v.t \in {"null", "undefined"} THEN Threw(TypeErrorOn(v, "length"))
  ELSE IF v.t # "array"
    THEN Threw(PlainError("TypeError", "entries.map is not a function"))
  ELSE IF Len(v.a) = 0
    THEN Returned(Str("No vault entries found for this project."))
  ELSE Returned(Stringify(Obj(
    [projectId |-> Str("p1"),
     count |-> Num(Len(v.a)),
     entries |-> Arr([i \in 1..Len(v.a) |-> FormatVaultEntry(v.a[i])])])))

TryBlock(t, v) ==
  CASE t = "list_tasks"    -> list_tasks_try(v)
    [] t = "get_task"      -> get_task_try(v)
    [] t = "create_task"   -> create_task_try(v)
    [] t = "list_projects" -> list_projects_try(v)
    [] t = "list_vault"    -> list_vault_try(v)

\* the text the catch block of each tool puts before formatError(error)
Label(t) ==
  CASE t = "list_tasks"    -> "Error listing tasks: "
    [] t = "get_task"      -> "Error getting task: "
    [] t = "create_task"   -> "Error creating task: "
    [] t = "list_projects" -> "Error listing projects: "
    [] t = "list_vault"    -> "Error listing vault entries: "

\* faulty variant: only an ApiError is turned into a string
Execute_Rethrow(t, o) ==
  LET r == IF o.kind = "rejected" THEN Threw(o.error)
           ELSE TryBlock(t, o.value)
  IN  IF ~r.throws THEN [kind |-> "returned", value |-> r.value]
      ELSE IF r.error.cls = "ApiError"
        THEN [kind |-> "returned",
              value |-> Str(Label(t) \o formatError(r.error))]
      ELSE [kind |-> "threw", error |-> r.error]

\* execute() from the settling of the awaited accessor call to its return
Execute(t, o) ==
  LET r == IF o.kind = "rejected" THEN Threw(o.error)
           ELSE TryBlock(t, o.value)
  IN  IF ~r.throws THEN [kind |-> "returned", value |-> r.value]
      ELSE [kind |-> "returned",
            value |-> Str(Label(t) \o formatError(r.error))]

\* a task and a project as the accessors resolve with them
SomeTask ==
  Obj([id |-> Str("t1"), title |-> Str("T"), status |-> Str("todo"),
       priority |-> Str("high"), projectId |-> Str("p1"),
       timeEstimate |-> Num(4)])

SomeProject ==
  Obj([id |-> Str("p1"), name |-> Str("N"), status |-> Str("active"),
       taskCount |-> Num(0)])

\* vault entries as the API can send them: two keys, each without a value
\* field or with one of two secrets in it
VaultEntries ==
  LET meta(k) == [id |-> Str(k), key |-> Str(k), category |-> Str("database"),
                  environment |-> Str("production")]
  IN  UNION { { Obj(meta(k)),
                Obj(("value" :> Str("s3cret")) @@ meta(k)),
                Obj(("value" :> Str("hunter2")) @@ meta(k)) } :
              k \in {"DATABASE_URL", "API_TOKEN"} }

\* what vault.list can resolve with: up to two entries
VaultListings ==
  { Arr(<< >>) }
  \cup { Arr(<< e >>) : e \in VaultEntries }
  \cup { Arr(<< e, f >>) : e, f \in VaultEntries }

\* what the accessor awaited by tool t can resolve with
ResolvedValues(t) ==
  CASE t = "list_tasks"    -> { Arr(<< >>), Arr(<< SomeTask >>), Null }
    [] t = "get_task"      -> { SomeTask, Null }
    [] t = "create_task"   -> { SomeTask, Undef }
    [] t = "list_projects" -> { Arr(<< >>), Arr(<< SomeProject >>), Null }
    [] t = "list_vault"    -> VaultListings \cup { Null }

\* how the accessor call can settle: with a value, or rejected with any of
\* the thrown values
Outcomes(t) ==
  { [kind |-> "resolved", value |-> v] : v \in ResolvedValues(t) }
  \cup { [kind |-> "rejected", error |-> e] : e \in ThrownValues }

ExecuteCall ==
  /\ hpc = "idle"
  /\ \E t \in Tools : tool' = t
  /\ hpc' = "awaiting"
  /\ UNCHANGED << awaited, output >>
  /\ UNCHANGED << engineVars, call, bootVars, guideVars, joinVars, techVars >>

AccessorSettles ==
  /\ hpc = "awaiting"
  /\ \E o \in Outcomes(tool) :
       /\ awaited' = o
       /\ output' = Execute(tool, o)
  /\ hpc' = "settled"
  /\ UNCHANGED tool
  /\ UNCHANGED << engineVars, call, bootVars, guideVars, joinVars, techVars >>

HandlerNext == ExecuteCall \/ AccessorSettles

HandlerSpec == Init /\ [][HandlerNext]_vars

\* ------------------------------------------------------------------------
\* bin/erold-mcp.ts, lib/config.ts validateConfig(), server.ts
\* ------------------------------------------------------------------------

\* the tools each registration function adds to the server it is given
ModuleTools(fn) ==
  CASE fn = "registerTaskTools" ->
         { "list_tasks", "get_task", "create_task", "update_task",
           "start_task", "complete_task", "block_task", "search_tasks",
           "add_task_comment", "get_task_comments", "get_blocked_tasks" }
    [] fn = "registerProjectTools" ->
         { "list_projects", "get_project", "create_project",
           "update_project", "get_project_stats", "get_project_tasks" }
    [] fn = "registerContextTools" ->
         { "get_context", "get_dashboard", "get_stats", "get_workload",
           "list_members" }
    [] fn = "registerKnowledgeTools" ->
         { "search_knowledge", "get_knowledge", "list_knowledge",
           "create_knowledge", "update_knowledge" }
    [] fn = "registerVaultTools" ->
         { "list_vault", "get_vault_secret", "create_vault_secret",
           "update_vault_secret", "delete_vault_secret" }
    [] fn = "registerTechInfoTools" ->
         { "get_tech_info", "update_tech_stack", "set_deployment_info",
           "add_tech_command", "remove_tech_command", "set_tech_notes" }
    [] fn = "registerGuidelineTools" ->
         { "get_guidelines", "list_guidelines", "search_guidelines" }

\* createServer(): the new instance and the registration calls, in order
createServer ==
  LET fns == << "registerTaskTools", "registerProjectTools",
                "registerContextTools", "registerKnowledgeTools",
                "registerVaultTools", "registerTechInfoTools" >>
  IN  [server |-> [created |-> TRUE, started |-> FALSE,
                   tools |-> UNION { ModuleTools(fns[i]) : i \in 1..Len(fns) }],
       registrations |-> [i \in 1..Len(fns) |->
                            [fn |-> fns[i], server |-> "server"]]]

\* faulty variant: the configuration error is reported, the process goes on
validateConfig_NoExit(e) ==
  LET c == getConfig(e)
  IN  IF c.ok THEN [errors |-> << >>, exits |-> << >>]
      ELSE [errors |-> << << "Configuration Error: " \o c.error.message >> >>,
            exits |-> << >>]

\* validateConfig(): what it writes with console.error and the codes it
\* calls process.exit with
validateConfig(e) ==
  LET c == getConfig(e)
  IN  IF c.ok THEN [errors |-> << >>, exits |-> << >>]
      ELSE [errors |-> IF IsError(c.error)
                         THEN << << "Configuration Error: "
                                    \o c.error.message >> >>
                         ELSE << >>,
            exits |-> << 1 >>]

\* bin/erold-mcp.ts: validateConfig();
ValidateConfigCall ==
  LET v == validateConfig(env)
  IN  /\ cliPc = "loaded"
      /\ stderr' = stderr \o v.errors
      /\ exits' = exits \o v.exits
      /\ cliPc' = IF v.exits # << >> THEN "exited" ELSE "validated"
      /\ UNCHANGED << server, registrations, startError >>
      /\ UNCHANGED << engineVars, call, handlerVars, guideVars, joinVars, techVars >>

\* startServer() up to `await server.start(...)`
startServer ==
  /\ cliPc = "validated"
  /\ server' = createServer.server
  /\ registrations' = createServer.registrations
  /\ cliPc' = "starting"
  /\ UNCHANGED << stderr, exits, startError >>
  /\ UNCHANGED << engineVars, call, handlerVars, guideVars, joinVars, techVars >>

\* server.start() resolves: the server runs on stdio
StartResolves ==
  /\ cliPc = "starting"
  /\ server' = [server EXCEPT !.started = TRUE]
  /\ cliPc' = "running"
  /\ UNCHANGED << stderr, exits, registrations, startError >>
  /\ UNCHANGED << engineVars, call, handlerVars, guideVars, joinVars, techVars >>

\* server.start() rejects, and so does the promise of startServer()
StartRejects ==
  /\ cliPc = "starting"
  /\ \E e \in ThrownValues : startError' = e
  /\ cliPc' = "failed"
  /\ UNCHANGED << stderr, exits, server, registrations >>
  /\ UNCHANGED << engineVars, call, handlerVars, guideVars, joinVars, techVars >>

\* the .catch callback of bin/erold-mcp.ts
StartFailureCaught ==
  /\ cliPc = "failed"
  /\ stderr' = Append(stderr, << "Failed to start MCP server:", startError >>)
  /\ exits' = Append(exits, 1)
  /\ cliPc' = "exited"
  /\ UNCHANGED << server, registrations, startError >>
  /\ UNCHANGED << engineVars, call, handlerVars, guideVars, joinVars, techVars >>

BootNext ==
  \/ ValidateConfigCall
  \/ startServer
  \/ StartResolves
  \/ StartRejects
  \/ StartFailureCaught

BootSpec == Init /\ [][BootNext]_vars

\* ------------------------------------------------------------------------
\* tools/guidelines.ts: fetchAllGuidelines() and the three tools
\* ------------------------------------------------------------------------

\* 5 minutes
CACHE_TTL == 5 * 60 * 1000

UpperChars ==
  << "A","B","C","D","E","F","G","H","I","J","K","L","M","N","O","P","Q","R",
     "S","T","U","V","W","X","Y","Z" >>

LowerChars ==
  << "a","b","c","d","e","f","g","h","i","j","k","l","m","n","o","p","q","r",
     "s","t","u","v","w","x","y","z" >>

\* String.prototype.toLowerCase() on letters A-Z
toLowerCase(cs) ==
  [i \in 1..Len(cs) |->
     IF \E j \in 1..26 : UpperChars[j] = cs[i]
       THEN LowerChars[CHOOSE j \in 1..26 : UpperChars[j] = cs[i]]
       ELSE cs[i]]

\* faulty variant: a cached list is used however old it is
CacheHit_NoExpiry(cache, timestamp, now) == Truthy(cache)

\* `guidelinesCache && now - cacheTimestamp < CACHE_TTL`
CacheHit(cache, timestamp, now) ==
  Truthy(cache) /\ now - timestamp < CACHE_TTL

\* all.filter((g) => g.topic.toLowerCase() === topic.toLowerCase())
ByTopic(all, topic) ==
  SelectSeq(all.a, LAMBDA g :
    toLowerCase(Prop(g, "topic").c) = toLowerCase(topic))

\* `data.guidelines || []`
GuidelinesOf(data) == Or(Prop(data, "guidelines"), Arr(<< >>))

\* the error fetchAllGuidelines() throws from its catch block
FetchGuidelinesError(error) ==
  PlainError("Error", "Failed to fetch guidelines: " \o formatError(error))

\* the text the catch block of each guideline tool puts before formatError
GuidelineLabel(t) ==
  CASE t = "get_guidelines"    -> "Error fetching guidelines: "
    [] t = "list_guidelines"   -> "Error listing guidelines: "
    [] t = "search_guidelines" -> "Error searching guidelines: "

Guideline(id, topic) == Obj([id |-> Str(id), topic |-> Txt(topic)])

\* bodies the guidelines API can answer with: two editions of the list, and
\* a body without a guidelines field
GuidelineBodies ==
  { Obj([guidelines |->
           Arr(<< Guideline("g1", << "r","e","a","c","t" >>) >>)]),
    Obj([guidelines |->
           Arr(<< Guideline("g1", << "r","e","a","c","t" >>),
                  Guideline("g2", << "c","l","o","u","d" >>) >>)]),
    Obj(<< >>) }

\* what makes the try block of fetchAllGuidelines() throw: a response that
\* is not ok, a fetch that rejects
GuidelineFailures == { PlainError("Error", "HTTP 500"), FetchFailed }

\* the tool calls made: get_guidelines for a topic that only the second
\* edition of the list has, and the two tools that take the whole list
GuidelineToolCalls ==
  { [tool |-> "get_guidelines", topic |-> << "C","l","o","u","d" >>],
    [tool |-> "list_guidelines", topic |-> << >>],
    [tool |-> "search_guidelines", topic |-> << >>] }

\* get_guidelines calls fetchAllGuidelines() a second time when no
\* guideline of the list has the topic
CallsAgain(c, all) ==
  c.tool = "get_guidelines" /\ c.phase = 1 /\ ByTopic(all, c.topic) = << >>

\* a tool is called: fetchAllGuidelines() returns the cached list, or
\* issues a fetch and waits for it
GuidelineCall(s) ==
  \E k \in GuidelineToolCalls :
    /\ gCalls[s] = NoGCall
    /\ IF CacheHit(guidelinesCache, cacheTimestamp, clock)
         THEN /\ gServed' = [tool |-> k.tool, via |-> "cache",
                             list |-> guidelinesCache]
              /\ UNCHANGED << gCalls, gFetches >>
         ELSE /\ gFetches < MaxFetches
              /\ gFetches' = gFetches + 1
              /\ gCalls' = [gCalls EXCEPT ![s] =
                              [tool |-> k.tool, topic |-> k.topic,
                               now |-> clock, phase |-> 1]]
              /\ UNCHANGED gServed
    /\ UNCHANGED << clock, ticks, guidelinesCache, cacheTimestamp >>
    /\ UNCHANGED << engineVars, call, handlerVars, bootVars, joinVars,
                  techVars >>

\* the fetch of the call in slot s is answered ok: the list is cached with
\* the time the call started, and the tool goes on
GuidelineFetchOk(s) ==
  \E data \in GuidelineBodies :
    LET c   == gCalls[s]
        all == GuidelinesOf(data)
    IN  /\ c # NoGCall
        /\ guidelinesCache' = all
        /\ cacheTimestamp' = c.now
        /\ IF CallsAgain(c, all) /\ ~CacheHit(all, c.now, clock)
             THEN /\ gFetches < MaxFetches
                  /\ gFetches' = gFetches + 1
                  /\ gCalls' = [gCalls EXCEPT ![s] =
                                  [c EXCEPT !.now = clock, !.phase = 2]]
                  /\ UNCHANGED gServed
             ELSE /\ gCalls' = [gCalls EXCEPT ![s] = NoGCall]
                  /\ gServed' = [tool |-> c.tool, via |-> "network",
                                 list |-> all]
                  /\ UNCHANGED gFetches
        /\ UNCHANGED << clock, ticks >>
        /\ UNCHANGED << engineVars, call, handlerVars, bootVars, joinVars,
                  techVars >>

\* the fetch of the call in slot s fails: the tool returns its error text
GuidelineFetchFails(s) ==
  \E e \in GuidelineFailures :
    LET c == gCalls[s]
    IN  /\ c # NoGCall
        /\ gCalls' = [gCalls EXCEPT ![s] = NoGCall]
        /\ gServed' = [tool |-> c.tool, via |-> "error",
                       text |-> GuidelineLabel(c.tool)
                                \o formatError(FetchGuidelinesError(e))]
        /\ UNCHANGED << clock, ticks, guidelinesCache, cacheTimestamp,
                        gFetches >>
        /\ UNCHANGED << engineVars, call, handlerVars, bootVars, joinVars,
                  techVars >>

\* time passes: a millisecond, or a millisecond less than the TTL
Tick ==
  /\ ticks < MaxTicks
  /\ \E d \in {1, CACHE_TTL - 1} : clock' = clock + d
  /\ ticks' = ticks + 1
  /\ UNCHANGED << guidelinesCache, cacheTimestamp, gCalls, gFetches, gServed >>
  /\ UNCHANGED << engineVars, call, handlerVars, bootVars, joinVars,
                  techVars >>

\* tool calls made one after the other
SequentialCall ==
  /\ \A s \in Slots : gCalls[s] = NoGCall
  /\ GuidelineCall(1)

FetchOkSequential == GuidelineFetchOk(1)

FetchFailsSequential == GuidelineFetchFails(1)

GuidelineNext ==
  \/ SequentialCall
  \/ FetchOkSequential
  \/ FetchFailsSequential
  \/ Tick

GuidelineSpec == Init /\ [][GuidelineNext]_vars

\* tool calls that overlap: a new call takes the first free slot
OverlappingCall ==
  \E s \in Slots :
    /\ \A r \in 1..(s - 1) : gCalls[r] # NoGCall
    /\ GuidelineCall(s)

FetchOkAny == \E s \in Slots : GuidelineFetchOk(s)

FetchFailsAny == \E s \in Slots : GuidelineFetchFails(s)

GuidelineRaceNext ==
  \/ OverlappingCall
  \/ FetchOkAny
  \/ FetchFailsAny
  \/ Tick

GuidelineRaceSpec == Init /\ [][GuidelineRaceNext]_vars

\* ------------------------------------------------------------------------
\* tools/projects.ts: get_project_stats, with params.projectId = 'p1'
\* ------------------------------------------------------------------------

\* Math.round((completed / total) * 100) for non-negative integers
RoundPercent(completed, total) == (200 * completed + total) \div (2 * total)

\* the try block of get_project_stats after the await gave project and stats
get_project_stats_try(project, stats) ==
  LET progress ==
        IF Prop(stats, "totalTasks").n > 0
          THEN RoundPercent(Prop(stats, "completedTasks").n,
                            Prop(stats, "totalTasks").n)
          ELSE 0
  IN  Stringify(Obj(
        [project |-> Obj([id |-> Prop(project, "id"),
                          name |-> Prop(project, "name"),
                          status |-> Prop(project, "status")]),
         stats |-> Obj(
           [totalTasks |-> Prop(stats, "totalTasks"),
            completedTasks |-> Prop(stats, "completedTasks"),
            openTasks |-> Prop(stats, "openTasks"),
            blockedTasks |-> Prop(stats, "blockedTasks"),
            progress |-> Str(ToString(progress) \o "%"),
            byStatus |-> Prop(stats, "byStatus"),
            byPriority |-> Prop(stats, "byPriority"),
            totalTimeLogged |->
              IF Truthy(Prop(stats, "totalTimeLogged"))
                THEN Str(ToString(Prop(stats, "totalTimeLogged").n) \o "h")
                ELSE Null])]))

\* faulty variant: the join waits for every promise and then reports the
\* failure of the first one in the array
PromiseAll_AllSettled(ps, was) ==
  IF was.st # "pending" THEN was
  ELSE IF \E l \in Legs : ps[l].st = "pending" THEN was
  ELSE IF ps["get"].st = "rejected"
    THEN [st |-> "rejected", error |-> ps["get"].v]
  ELSE IF ps["stats"].st = "rejected"
    THEN [st |-> "rejected", error |-> ps["stats"].v]
  ELSE [st |-> "fulfilled", values |-> [l \in Legs |-> ps[l].v]]

\* Promise.all([projects.get(...), projects.stats(...)]) when its promises
\* are in the states ps and it was in the state was
PromiseAll(ps, was) ==
  IF was.st # "pending" THEN was
  ELSE IF \E l \in Legs : ps[l].st = "rejected"
    THEN [st |-> "rejected",
          error |-> ps[CHOOSE l \in Legs : ps[l].st = "rejected"].v]
  ELSE IF \A l \in Legs : ps[l].st = "fulfilled"
    THEN [st |-> "fulfilled", values |-> [l \in Legs |-> ps[l].v]]
  ELSE was

\* execute() of get_project_stats from the settling of Promise.all to its
\* return
get_project_stats(j) ==
  IF j.st = "rejected"
    THEN [kind |-> "returned",
          value |-> Str("Error getting project stats: "
                        \o formatError(j.error))]
    ELSE [kind |-> "returned",
          value |-> get_project_stats_try(j.values["get"],
                                          j.values["stats"])]

\* statistics as projects.stats resolves with them
SomeStats(total, completed, logged) ==
  Obj([totalTasks |-> Num(total), completedTasks |-> Num(completed),
       openTasks |-> Num(total - completed), blockedTasks |-> Num(0),
       byStatus |-> Obj([done |-> Num(completed)]),
       byPriority |-> Obj([high |-> Num(total)]),
       totalTimeLogged |-> logged])

\* what each of the two accessor calls can resolve with
LegValues(l) ==
  IF l = "get"
    THEN { SomeProject,
           Obj([id |-> Str("p1"), name |-> Str("Test"),
                status |-> Str("active")]) }
    ELSE { SomeStats(20, 15, Num(40)), SomeStats(0, 0, Undef),
           SomeStats(3, 1, Num(0)) }

\* execute() up to the await: both accessor calls are made, then Promise.all
GetProjectStatsCall ==
  /\ joined.st = "none"
  /\ legs' = [l \in Legs |-> [st |-> "pending"]]
  /\ joined' = [st |-> "pending"]
  /\ UNCHANGED statsOutput
  /\ UNCHANGED << engineVars, call, handlerVars, bootVars, guideVars,
                  techVars >>

\* the promise of accessor call l settles in the state st with the value or
\* error v; if that settles Promise.all,
\* execute() runs to its return
LegSettles(l, st, v) ==
  LET ps == [legs EXCEPT ![l] = [st |-> st, v |-> v]]
      j == PromiseAll(ps, joined)
  IN  /\ legs[l].st = "pending"
      /\ legs' = ps
      /\ joined' = j
      /\ statsOutput' = IF joined.st = "pending" /\ j.st # "pending"
                          THEN get_project_stats(j)
                          ELSE statsOutput
      /\ UNCHANGED << engineVars, call, handlerVars, bootVars, guideVars,
                      techVars >>

LegResolves ==
  \E l \in Legs : \E v \in LegValues(l) :
    LegSettles(l, "fulfilled", v)

LegRejects ==
  \E l \in Legs : \E e \in ThrownValues :
    LegSettles(l, "rejected", e)

StatsNext == GetProjectStatsCall \/ LegResolves \/ LegRejects

StatsSpec == Init /\ [][StatsNext]_vars

\* ------------------------------------------------------------------------
\* tools/tech-info.ts: add_tech_command
\* ------------------------------------------------------------------------

\* the parameters of an invocation: one of two commands, the second without
\* a description, for one of the projects
TechParams ==
  { [projectId |-> p, name |-> Str("Test"), command |-> Str("npm test"),
     description |-> Str("Run tests")] : p \in TechProjects }
  \cup { [projectId |-> p, name |-> Str("Deploy"),
          command |-> Str("npm run deploy"), description |-> Undef] :
         p \in TechProjects }

\* how techInfo.get and techInfo.update can fail
TechFailures ==
  { ApiError("Server error", 500, Undef),
    PlainError("AbortError", "The operation was aborted") }

\* newCommand of add_tech_command
NewCommand(p) ==
  Obj([name |-> p.name, command |-> p.command,
       description |-> Or(p.description, Str(""))])

\* the catch block of add_tech_command
AddCommandError(e) ==
  [kind |-> "returned",
   value |-> Str("Error adding command: " \o formatError(e))]

\* the return of add_tech_command after both awaits
AddCommandResult(commands, newCommand) ==
  [kind |-> "returned",
   value |-> Stringify(Obj([success |-> Bool(TRUE),
                            message |-> Str("Command added"),
                            command |-> newCommand,
                            totalCommands |-> Num(Len(commands.a) + 1)]))]

\* the API applies PATCH .../tech-info: the fields of data replace the
\* stored ones
ApplyPatch(stored, data) == Obj(data.o @@ stored.o)

\* execute() up to `await techInfo.get(params.projectId)`
AddTechCommandCall ==
  \E s \in Slots : \E p \in TechParams :
    /\ \A r \in 1..(s - 1) : techCalls[r] # NoTechCall
    /\ techCalls[s] = NoTechCall
    /\ techCalls' = [techCalls EXCEPT ![s] = [pc |-> "get", params |-> p]]
    /\ UNCHANGED techStore
    /\ UNCHANGED << engineVars, call, handlerVars, bootVars, guideVars,
                    joinVars >>

\* techInfo.get resolves with the stored tech info; execute() runs on to
\* `await techInfo.update(...)`
TechGetResolves ==
  \E s \in Slots :
    /\ techCalls[s].pc = "get"
    /\ LET p == techCalls[s].params
           current == techStore[p.projectId]
           commands == Or(Prop(current, "commands"), Arr(<< >>))
           newCommand == NewCommand(p)
       IN  techCalls' =
             [techCalls EXCEPT ![s] =
                [pc |-> "update", params |-> p, commands |-> commands,
                 newCommand |-> newCommand,
                 data |-> Obj([commands |->
                                 Arr(Append(commands.a, newCommand))])]]
    /\ UNCHANGED techStore
    /\ UNCHANGED << engineVars, call, handlerVars, bootVars, guideVars,
                    joinVars >>

\* techInfo.get rejects; the catch block returns
TechGetRejects ==
  \E s \in Slots : \E e \in TechFailures :
    /\ techCalls[s].pc = "get"
    /\ techCalls' = [techCalls EXCEPT ![s] =
                       [pc |-> "done", params |-> techCalls[s].params,
                        issued |-> << "GET" >>,
                        out |-> AddCommandError(e)]]
    /\ UNCHANGED techStore
    /\ UNCHANGED << engineVars, call, handlerVars, bootVars, guideVars,
                    joinVars >>

\* the API stores the list and techInfo.update resolves; execute() returns
TechUpdateResolves ==
  \E s \in Slots :
    /\ techCalls[s].pc = "update"
    /\ LET c == techCalls[s]
       IN  /\ techStore' =
                [techStore EXCEPT ![c.params.projectId] =
                   ApplyPatch(@, c.data)]
           /\ techCalls' = [techCalls EXCEPT ![s] =
                [pc |-> "done", params |-> c.params,
                 issued |-> << "GET", "PATCH" >>,
                 out |-> AddCommandResult(c.commands, c.newCommand)]]
    /\ UNCHANGED << engineVars, call, handlerVars, bootVars, guideVars,
                    joinVars >>

\* techInfo.update rejects and nothing is stored; the catch block returns
TechUpdateRejects ==
  \E s \in Slots : \E e \in TechFailures :
    /\ techCalls[s].pc = "update"
    /\ techCalls' = [techCalls EXCEPT ![s] =
                       [pc |-> "done", params |-> techCalls[s].params,
                        issued |-> << "GET", "PATCH" >>,
                        out |-> AddCommandError(e)]]
    /\ UNCHANGED techStore
    /\ UNCHANGED << engineVars, call, handlerVars, bootVars, guideVars,
                    joinVars >>

TechNext ==
  \/ AddTechCommandCall
  \/ TechGetResolves
  \/ TechGetRejects
  \/ TechUpdateResolves
  \/ TechUpdateRejects

TechSpec == Init /\ [][TechNext]_vars

\* the scheduling of the event loop: a pending timer fires, a settled
\* promise runs its continuation; the network owes no answer
FairSpec ==
  Spec /\ WF_vars(TimeoutFires) /\ WF_vars(FetchAborted) /\ WF_vars(SleepDone)

\* ------------------------------------------------------------------------
\* Vocabulary of the properties
\* ------------------------------------------------------------------------

Settled == pc \in {"resolved", "rejected"}

\* the request passed getConfig() and reached its first fetch
Started == pc # "idle" /\ getConfig(env).ok

\* attempt i ended in a 5xx or 429 response
RetryableResponse(i) ==
  /\ log[i].kind = "response"
  /\ (log[i].status >= 500 \/ log[i].status = 429)

\* attempt i ended in a 4xx response other than 429
ClientErrorResponse(i) ==
  /\ log[i].kind = "response"
  /\ log[i].status >= 400 /\ log[i].status < 500 /\ log[i].status # 429

\* the reference for unwrapping: the content of a data envelope, else the
\* body itself
EnvelopeContent(body) ==
  IF body.t = "object" /\ "data" \in DOMAIN body.o THEN body.o.data ELSE body

\* the body carries a non-empty error.message
HasErrorMessage(body) ==
  /\ body.t = "object" /\ "error" \in DOMAIN body.o
  /\ body.o.error.t = "object" /\ "message" \in DOMAIN body.o.error.o
  /\ body.o.error.o.message.t = "string" /\ body.o.error.o.message.s # ""

\* the promise rejected with the error that the response of the last
\* attempt stands for
ThrownMatchesLastResponse ==
  /\ thrown.cls = "ApiError"
  /\ thrown.statusCode = lastResp.status
  /\ HasErrorMessage(lastResp.body)
       => thrown.message = lastResp.body.o.error.o.message.s

\* ------------------------------------------------------------------------
\* Properties of the retry loop
\* ------------------------------------------------------------------------

\* C1: with valid configuration a logical request issues between 1 and 3
\* fetch calls; the attempt counter starts at 1, equals the number of calls
\* made so far and never exceeds 3.
C1_AttemptsBounded ==
  /\ attempt <= 3 /\ calls <= 3
  /\ Started => (calls >= 1 /\ attempt = calls)
  /\ Len(log) <= calls /\ calls <= Len(log) + 1

C1_Witness == pc = "rejected" /\ calls = 3 /\ attempt = 3 /\ Len(log) = 3

\* C2: k retryable responses (5xx or 429), k in {1, 2}, followed by a 2xx
\* response: exactly k+1 fetch calls, nothing after the 2xx response, and the
\* request resolves with the unwrapped body of that response.
C2_RetryThenSuccess ==
  \A k \in {1, 2} :
    ( /\ Len(log) >= k + 1
      /\ \A i \in 1..k : RetryableResponse(i)
      /\ log[k + 1].kind = "response"
      /\ ResponseOk(log[k + 1].status) )
    => /\ Len(log) = k + 1
       /\ calls = k + 1
       /\ pc = "resolved"
       /\ lastResp.status = log[k + 1].status
       /\ result = EnvelopeContent(lastResp.body)

C2_Witness ==
  /\ pc = "resolved" /\ calls = 3 /\ Len(log) = 3
  /\ log[1].status = 500 /\ log[2].status = 429 /\ log[3].status = 200
  /\ lastResp.body = Obj([data |-> Str("X")]) /\ result = Str("X")

\* C3: three retryable failures in a row: exactly three fetch calls, and the
\* request rejects with the error of the third attempt (status of the third
\* response; 500 for three 500 responses).
C3_ExhaustedRetries ==
  ( /\ Len(log) = 3
    /\ \A i \in 1..3 : RetryableResponse(i) \/ log[i].kind = "abort" )
  => /\ calls = 3
     /\ pc = "rejected"
     /\ thrown = lastError
     /\ log[3].kind = "response" => ThrownMatchesLastResponse
     /\ log[3].kind = "abort" => thrown = TimedOut

C3_Witness ==
  /\ pc = "rejected" /\ calls = 3 /\ Len(log) = 3
  /\ log[1].status = 503 /\ log[2].status = 429 /\ log[3].status = 500
  /\ thrown.cls = "ApiError" /\ thrown.statusCode = 500
  /\ thrown.message = "Validation failed"

C6_TimeoutIs408 ==
  /\ thrown # AbortError
  /\ aborted => pc # "resolved"
  /\ (Len(log) >= 1 /\ log[Len(log)].kind = "abort") => lastError = TimedOut
  /\ (aborted /\ pc = "rejected")
       => (thrown = TimedOut /\ thrown.statusCode = 408
           /\ log[Len(log)].kind = "abort")

C6_Witness ==
  /\ aborted /\ pc = "rejected" /\ thrown = TimedOut
  /\ log[1].kind = "abort"

\* C7: a network-level failure of fetch (no timeout) is turned into an
\* ApiError and retried like a 5xx response while attempts remain; the
\* caller never receives the raw network error.
C7_NetworkErrorNormalized ==
  /\ thrown # FetchFailed
  /\ \A i \in 1..Len(log) :
       (log[i].kind = "network" /\ i < 3)
       => (pc = "sleeping" \/ calls >= i + 1)

\* C8: every attempt runs under the timeout timer: while a fetch is in
\* flight the timer is pending, or it has fired and the call is being
\* aborted, so every request settles.
C8_EveryAttemptTimed ==
  pc = "fetching" => (timerArmed \/ aborted)

\* C9: a request resolves with the content of the data field whenever the
\* parsed body is an object that has one (null, 0 and false included), and
\* with the whole body (or the raw text) otherwise; one envelope is removed,
\* not two.
C9_UnwrapOnce ==
  pc = "resolved"
  => /\ result = EnvelopeContent(lastResp.body)
     /\ lastResp.body = Obj([data |-> Obj([data |-> Str("Y")])])
          => result = Obj([data |-> Str("Y")])
     /\ ~lastResp.json => result = lastResp.body

C9_Witness ==
  /\ pc = "resolved"
  /\ lastResp.body = Obj([data |-> Null])
  /\ result = Null

\* ------------------------------------------------------------------------
\* Properties of the query string
\* ------------------------------------------------------------------------

\* position of the first occurrence of c in cs, 0 when there is none
FirstIndex(cs, c) ==
  IF \E i \in 1..Len(cs) : cs[i] = c
    THEN CHOOSE i \in 1..Len(cs) :
           cs[i] = c /\ \A j \in 1..(i - 1) : cs[j] # c
    ELSE 0

RECURSIVE SplitOn(_, _)
\* the pieces of cs between the occurrences of sep
SplitOn(cs, sep) ==
  LET i == FirstIndex(cs, sep)
  IN  IF i = 0 THEN << cs >>
      ELSE << SubSeq(cs, 1, i - 1) >>
           \o SplitOn(SubSeq(cs, i + 1, Len(cs)), sep)

\* the character a percent code stands for
PercentChar(hi, lo) ==
  CASE hi = "2" /\ lo = "6" -> "&"
    [] hi = "3" /\ lo = "D" -> "="
    [] hi = "3" /\ lo = "F" -> "?"
    [] hi = "2" /\ lo = "F" -> "/"
    [] hi = "2" /\ lo = "B" -> "+"
    [] hi = "2" /\ lo = "5" -> "%"

RECURSIVE FormDecode(_)
\* what the receiving server reads out of a form-urlencoded piece
FormDecode(cs) ==
  IF cs = << >> THEN << >>
  ELSE IF Head(cs) = "+" THEN << " " >> \o FormDecode(Tail(cs))
  ELSE IF Head(cs) = "%"
    THEN << PercentChar(cs[2], cs[3]) >> \o FormDecode(SubSeq(cs, 4, Len(cs)))
  ELSE << Head(cs) >> \o FormDecode(Tail(cs))

\* the name/value pairs a server parses out of the query part of u
WireQuery(u) ==
  LET q     == SubSeq(u, FirstIndex(u, "?") + 1, Len(u))
      parts == SplitOn(q, "&")
  IN  [ i \in 1..Len(parts) |->
          LET eq == FirstIndex(parts[i], "=")
          IN  << FormDecode(SubSeq(parts[i], 1, eq - 1)),
                 FormDecode(SubSeq(parts[i], eq + 1, Len(parts[i]))) >> ]

\* the text each parameter value of the model is expected to be sent as
ExpectedText(v) ==
  CASE v = Num(0)      -> << "0" >>
    [] v = Num(10)     -> << "1","0" >>
    [] v = Bool(FALSE) -> << "f","a","l","s","e" >>
    [] v = Bool(TRUE)  -> << "t","r","u","e" >>
    [] v.t = "text"    -> v.c

\* the entries that have a value: not undefined, not null, not ''
PresentEntries(m) ==
  SelectSeq(m, LAMBDA e : e[2].t \notin {"undefined", "null"}
                          /\ ~(e[2].t = "text" /\ Len(e[2].c) = 0))

\* C10: the query string sent by get() holds exactly the entries whose value
\* is not undefined, null or '', each with the text of its value (0 and
\* false included), in the order of the mapping; with no such entry the URL
\* has no '?'.
C10_QueryString ==
  (method = "GET" /\ pc = "fetching")
  => LET present == PresentEntries(params)
         base    == getConfig(env).apiUrl \o Endpoint
     IN  /\ SubSeq(url, 1, Len(base)) = base
         /\ present = << >> => url = base
         /\ present # << >>
              => /\ Len(url) > Len(base) + 1
                 /\ url[Len(base) + 1] = "?"
                 /\ WireQuery(url)
                      = [ i \in 1..Len(present) |->
                            << present[i][1], ExpectedText(present[i][2]) >> ]

C10_Witness ==
  /\ method = "GET" /\ pc = "fetching"
  /\ params = << << << "q" >>, Undef >>,
                 << << "l","i","m","i","t" >>, Num(0) >> >>
  /\ url = DEFAULT_API_URL \o Endpoint
           \o << "?","l","i","m","i","t","=","0" >>

\* ------------------------------------------------------------------------
\* Properties of the error model
\* ------------------------------------------------------------------------

\* C11: isRetryableError is true exactly for an ApiError of status >= 500 or
\* 429 and for an Error named AbortError; false for every other ApiError
\* (400, 401, 404, 408), every other Error and every value that is no Error.
C11_IsRetryable ==
  call.fn = "isRetryableError"
  => LET e == call.arg
     IN  /\ call.bool
             <=> \/ e.cls = "ApiError"
                    /\ (e.statusCode = 429 \/ e.statusCode \in 500..599)
                 \/ e.cls \in {"Error", "ConfigError"}
                    /\ e.name = "AbortError"
         /\ (e.cls = "ApiError" /\ e.statusCode \in {400, 401, 404})
              => ~call.bool
         /\ e.cls = "value" => ~call.bool

C11_Witness ==
  /\ call.fn = "isRetryableError"
  /\ call.arg = PlainError("AbortError", "The operation was aborted")
  /\ call.bool

\* C12: formatError gives 'API Error (s): m' for an ApiError of status s
\* and message m, the message for any other Error (ConfigError included),
\* and 'An unexpected error occurred' for a value that is no Error.
C12_FormatError ==
  call.fn = "formatError"
  => LET e == call.arg
     IN  /\ e.cls = "ApiError"
              => call.text = "API Error (" \o ToString(e.statusCode) \o "): "
                             \o e.message
         /\ e = ApiError("Task not found", 404, Undef)
              => call.text = "API Error (404): Task not found"
         /\ e.cls \in {"Error", "ConfigError"} => call.text = e.message
         /\ e.cls = "value" => call.text = "An unexpected error occurred"

C12_Witness ==
  /\ call.fn = "formatError"
  /\ call.arg = ApiError("Task not found", 404, Undef)
  /\ call.text = "API Error (404): Task not found"

\* C13: the error made for a 429 response has status 429 and the message
\* 'Rate limited. Try again in n seconds.' with n the retry-after seconds
\* the server sent (5 gives 5, 0 gives 0), and n = 60 without the header.
C13_RateLimitMessage ==
  ( /\ Len(log) >= 1
    /\ log[Len(log)].kind = "response"
    /\ log[Len(log)].status = 429 )
  => /\ lastError.cls = "ApiError" /\ lastError.statusCode = 429
     /\ lastResp.retryAfter = Txt(<< "5" >>)
          => lastError.message = "Rate limited. Try again in 5 seconds."
     /\ lastResp.retryAfter = Txt(<< "0" >>)
          => lastError.message = "Rate limited. Try again in 0 seconds."
     /\ lastResp.retryAfter = Null
          => lastError.message = "Rate limited. Try again in 60 seconds."

\* ------------------------------------------------------------------------
\* Configuration and request building, over the accessors
\* ------------------------------------------------------------------------

StartsWith(cs, prefix) ==
  /\ Len(cs) >= Len(prefix)
  /\ SubSeq(cs, 1, Len(prefix)) = prefix

\* the step is the start of an accessor or wrapper call
CallStarts == requests' = requests + 1

\* C14: a call made while the API key or the tenant is missing from the
\* environment is rejected with getConfig's Error and no fetch is invoked,
\* through a tenant-scoped accessor and through an untenanted one alike
C14_MissingConfigNoFetch ==
  [][ (CallStarts /\ (env.apiKey = << >> \/ env.tenant = << >>))
      => /\ pc' = "rejected"
         /\ thrown'.cls = "Error"
         /\ calls' = 0
         /\ sent' = << >> ]_vars

\* user.me(), whose path names no tenant, was called with the tenant unset
C14_Witness ==
  /\ accessor = "user.me"
  /\ pc = "rejected"
  /\ sent = << >>
  /\ env.apiKey # << >> /\ env.tenant = << >>
  /\ thrown = getConfig(env).error

\* C15: every call builds its URL, its tenant path and its X-API-Key header
\* from the environment as it is when the call is made, and fails at once
\* when a required variable is missing by then
C15_ConfigReadPerRequest ==
  [][ CallStarts =>
        LET base == IF env.apiUrl = << >> THEN DEFAULT_API_URL
                    ELSE env.apiUrl
            prefix == IF accessor' \in TenantScoped
                        THEN base \o << "/","t","e","n","a","n","t","s","/" >>
                             \o env.tenant \o << "/" >>
                        ELSE base
        IN  IF env.apiKey = << >> \/ env.tenant = << >>
              THEN pc' = "rejected" /\ sent' = << >>
              ELSE /\ pc' = "fetching"
                   /\ Len(sent') = 1
                   /\ StartsWith(sent'[1].url, prefix)
                   /\ "X-API-Key" \in DOMAIN sent'[1].headers
                   /\ sent'[1].headers["X-API-Key"] = Txt(env.apiKey) ]_vars

\* the second call runs with another key, tenant and base URL than the first
C15_Witness ==
  /\ requests = 2
  /\ pc = "fetching"
  /\ accessor \in TenantScoped
  /\ previous.ok /\ config.ok
  /\ previous.apiKey # config.apiKey
  /\ previous.tenant # config.tenant
  /\ previous.apiUrl # config.apiUrl

\* C16: every fetch of a call carries the three fixed headers, the key
\* being the one getConfig() returned to this call, and has the URL, the
\* method and the body of the call's first fetch
C16_SameDescriptorAndHeaders ==
  \A i \in 1..Len(sent) :
    LET h == sent[i].headers
    IN  /\ {"Content-Type", "X-API-Key", "User-Agent"} \subseteq DOMAIN h
        /\ h["Content-Type"] = Str("application/json")
        /\ h["X-API-Key"] = Txt(config.apiKey)
        /\ h["User-Agent"] = Str("@erold/mcp-server/0.1.0")
        /\ sent[i].url = sent[1].url
        /\ sent[i].method = sent[1].method
        /\ sent[i].body = sent[1].body

\* tasks.create() is at its third fetch and the key in the environment is
\* no longer the one the call started with
C16_Witness ==
  /\ accessor = "tasks.create"
  /\ Len(sent) = 3
  /\ sent[3].body = Stringify(TaskData)
  /\ env.apiKey # config.apiKey

\* ------------------------------------------------------------------------
\* Projects: the wire field `title` and the tool-facing field `name`
\* ------------------------------------------------------------------------

\* C18: projects.create and projects.update send the caller's name as
\* `title`; projects.get and projects.list return every project with `name`
\* equal to the `title` the API sent
C18_ProjectNameTranslated ==
  /\ (accessor \in {"projects.create", "projects.update"} /\ sent # << >>)
       => Prop(sent[1].body.v, "title") = Prop(ProjectData, "name")
  /\ (accessor = "projects.get" /\ pc = "resolved"
         /\ lastResp.body = Obj([data |-> WireProject]))
       => Prop(result, "name") = Prop(WireProject, "title")
  /\ (accessor = "projects.list" /\ pc = "resolved"
         /\ lastResp.body = Obj([data |-> Arr(<< WireProject >>)]))
       => /\ result.t = "array"
          /\ \A i \in 1..Len(result.a) :
               Prop(result.a[i], "name") = Prop(WireProject, "title")

\* ------------------------------------------------------------------------
\* Tool handlers
\* ------------------------------------------------------------------------

\* a JavaScript string: a literal or template, or the text of JSON.stringify
IsJsString(v) == v.t \in {"string", "json"}

\* C17: however the awaited accessor call settles, execute() returns a
\* string and does not throw; after a rejection the string is the label of
\* the tool followed by formatError of the error, which for an ApiError
\* holds its status code and its message
C17_HandlerReturnsString ==
  hpc = "settled" =>
    /\ output.kind = "returned"
    /\ IsJsString(output.value)
    /\ awaited.kind = "rejected" =>
         /\ output.value = Str(Label(tool) \o formatError(awaited.error))
         /\ tool = "list_tasks" =>
              output.value = Str("Error listing tasks: "
                                 \o formatError(awaited.error))
         /\ tool = "create_task" =>
              output.value = Str("Error creating task: "
                                 \o formatError(awaited.error))
         /\ awaited.error.cls = "ApiError" =>
              output.value =
                Str(Label(tool) \o "API Error ("
                    \o ToString(awaited.error.statusCode) \o "): "
                    \o awaited.error.message)

\* list_tasks has returned after tasks.list() rejected with a value that is
\* no Error
C17_Witness ==
  /\ hpc = "settled"
  /\ tool = "list_tasks"
  /\ awaited.kind = "rejected"
  /\ awaited.error.cls = "value"
  /\ output.value = Str("Error listing tasks: An unexpected error occurred")

\* ------------------------------------------------------------------------
\* Start-up
\* ------------------------------------------------------------------------

SevenModules ==
  { "registerTaskTools", "registerProjectTools", "registerContextTools",
    "registerKnowledgeTools", "registerVaultTools", "registerTechInfoTools",
    "registerGuidelineTools" }

\* C19: once createServer has returned, each of the seven registration
\* functions has been called exactly once, with the created server, and the
\* guideline tools are among the server's tools
C19_AllModulesRegistered ==
  server.created =>
    /\ \A fn \in SevenModules :
         Cardinality({ i \in 1..Len(registrations) :
                        registrations[i] = [fn |-> fn, server |-> "server"] })
           = 1
    /\ \A i \in 1..Len(registrations) : registrations[i].fn \in SevenModules
    /\ { "get_guidelines", "list_guidelines", "search_guidelines" }
         \subseteq server.tools

\* C20: with the API key or the tenant missing, the process has written the
\* Configuration Error line and called process.exit(1) without creating or
\* starting a server; a server is created only after validation passed;
\* a failed start ends with process.exit(1); validation of a complete
\* configuration requests no exit
C20_ValidateBeforeStart ==
  /\ (cliPc # "loaded" /\ (env.apiKey = << >> \/ env.tenant = << >>))
       => /\ cliPc = "exited"
          /\ exits = << 1 >>
          /\ stderr \in
               { << << "Configuration Error: "
                       \o "EROLD_API_KEY environment variable is required.\n"
                       \o "Get your API key from: "
                       \o "Settings > API Keys in Erold" >> >>,
                 << << "Configuration Error: "
                       \o "EROLD_TENANT environment variable is required.\n"
                       \o "Set this to your tenant ID or slug." >> >> }
          /\ server = NoServer
          /\ registrations = << >>
  /\ server.created => (env.apiKey # << >> /\ env.tenant # << >>)
  /\ (cliPc = "exited" /\ startError # NoError) => exits = << 1 >>
  /\ (cliPc \in {"validated", "starting", "running", "failed"})
       => exits = << >>

\* the process has exited at validation: the tenant is missing
C20_Witness ==
  /\ cliPc = "exited"
  /\ env.apiKey # << >> /\ env.tenant = << >>
  /\ exits = << 1 >>
  /\ Len(stderr) = 1

\* ------------------------------------------------------------------------
\* Backoff, timeouts and the kind of the configuration error
\* ------------------------------------------------------------------------

\* fetch invocations whose promise has not settled
InFlight == calls - Len(log)

\* C23: at most one fetch of a request is in flight; the n-th wait is
\* RETRY_DELAY * n; a request that has settled after k attempts has waited
\* k - 1 times, so nothing is waited after the final attempt or after an
\* error that is not retried
C23_SequentialLinearBackoff ==
  /\ InFlight \in {0, 1}
  /\ InFlight = 1 <=> pc = "fetching"
  /\ \A n \in 1..Len(waits) : waits[n] = RETRY_DELAY * n
  /\ \A n \in 1..(Len(waits) - 1) : waits[n] < waits[n + 1]
  /\ Len(waits) <= MAX_RETRIES - 1
  /\ (Settled /\ log # << >>) => Len(waits) = Len(log) - 1
  /\ pc = "sleeping" => Len(waits) = Len(log)

\* three attempts have failed: two waits, none after the third
C23_Witness ==
  /\ pc = "rejected"
  /\ Len(log) = 3
  /\ Len(waits) = 2
  /\ calls = 3

\* C24: the attempt that follows a timed-out attempt is a fetch of its own,
\* with a signal that is not aborted, so that a 2xx answer can resolve the
\* request
C24_RetryAfterTimeoutIsFresh ==
  (pc = "fetching" /\ attempt >= 2 /\ log[attempt - 1].kind = "abort")
    => ~aborted

\* C25: a missing API key or tenant makes getConfig fail with a
\* ConfigError; a missing base URL alone does not fail and gives the
\* default base URL
C25_ConfigErrorKind ==
  /\ (pc = "rejected" /\ calls = 0 /\ requests > 0)
       => thrown.cls = "ConfigError"
  /\ (sent # << >> /\ env.apiUrl = << >>)
       => StartsWith(sent[1].url, DEFAULT_API_URL)

\* C28: the wait after a failed attempt is RETRY_DELAY times the attempt
\* number after a 429 response as after any other retried failure,
\* whatever the retry-after header; the header shows only in the message
\* of the rate-limit error
C28_WaitIgnoresRetryAfter ==
  pc = "sleeping" =>
    /\ waits[Len(waits)] = RETRY_DELAY * attempt
    /\ (lastResp.status = 429 /\ log[Len(log)].kind = "response")
         => /\ lastError.cls = "ApiError"
            /\ lastError.statusCode = 429
            /\ lastError.details = Undef
            /\ lastError.message =
                 rateLimited(IF Truthy(lastResp.retryAfter)
                               THEN parseInt(lastResp.retryAfter.c)
                               ELSE Undef).message

\* the second attempt was answered 429 with retry-after: 5
C28_Witness ==
  /\ pc = "sleeping"
  /\ attempt = 2
  /\ lastResp.status = 429
  /\ lastResp.retryAfter = Txt(<< "5" >>)
  /\ waits = << RETRY_DELAY, RETRY_DELAY * 2 >>

\* ------------------------------------------------------------------------
\* Vault listing
\* ------------------------------------------------------------------------

\* an entry without its value field
WithoutValue(entry) ==
  [k \in DOMAIN entry.o \ {"value"} |-> entry.o[k]]

\* two listings that differ at most in the value fields of their entries
SameButValues(v, w) ==
  /\ Len(v.a) = Len(w.a)
  /\ \A i \in 1..Len(v.a) : WithoutValue(v.a[i]) = WithoutValue(w.a[i])

\* C22: what list_vault returns for a listing is what it returns for every
\* listing that differs from it only in value fields, and no entry of its
\* output has a value field
C22_ListVaultHidesValues ==
  (hpc = "settled" /\ tool = "list_vault" /\ awaited.kind = "resolved"
     /\ awaited.value.t = "array")
    => /\ output.kind = "returned"
       /\ \A w \in VaultListings :
            SameButValues(awaited.value, w)
              => Execute("list_vault", [kind |-> "resolved", value |-> w])
                   = output
       /\ output.value.t = "json" =>
            \A i \in 1..Len(output.value.v.o.entries.a) :
              "value" \notin DOMAIN output.value.v.o.entries.a[i].o

\* list_vault has returned a listing of two entries that came with secrets
C22_Witness ==
  /\ hpc = "settled"
  /\ tool = "list_vault"
  /\ awaited.kind = "resolved"
  /\ awaited.value.t = "array"
  /\ Len(awaited.value.a) = 2
  /\ \A i \in 1..2 : "value" \in DOMAIN awaited.value.a[i].o
  /\ output.value.t = "json"

\* ------------------------------------------------------------------------
\* Caller-supplied headers
\* ------------------------------------------------------------------------

ServedFromCache == gServed' # gServed /\ gServed'.via = "cache"

\* a tool call starts, in this step, with a fetch
StartsWithFetch ==
  \E s \in Slots :
    gCalls[s] = NoGCall /\ gCalls'[s] # NoGCall

\* the cached list is younger than the TTL
CacheFresh == guidelinesCache # Null /\ clock - cacheTimestamp < CACHE_TTL

\* C21: with tool calls made one after the other, a call is served from the
\* cache, without a fetch, exactly when a list is cached and less than
\* CACHE_TTL has passed since the time stamp of the cache; a call made when
\* no list is cached or the TTL has passed issues one fetch
C21_CacheWithinTtl ==
  [][ /\ ServedFromCache
           => /\ CacheFresh
              /\ gFetches' = gFetches
              /\ gServed'.list = guidelinesCache
      /\ StartsWithFetch
           => /\ ~CacheFresh
              /\ gFetches' = gFetches + 1 ]_vars

\* one fetch so far, and a call served from the cache one millisecond
\* before the TTL has passed
C21_Witness ==
  /\ gServed # NoOutcome
  /\ gServed.via = "cache"
  /\ gFetches = 1
  /\ clock - cacheTimestamp = CACHE_TTL - 1

\* C29: whatever the order in which overlapping fetches are answered, the
\* time stamp of the cache never decreases, so that a cached list is never
\* replaced by the result of a fetch started earlier
C29_CacheNeverRegresses ==
  [][ cacheTimestamp' >= cacheTimestamp ]_vars

\* C26: get_project_stats makes both accessor calls before it awaits; the
\* first of them to fail, in the order of completion, makes the handler
\* return 'Error getting project stats: ' and that failure's formatted
\* error; when both have succeeded the return value carries the project and
\* its statistics; what the other call does afterwards changes nothing
FirstFailureText(l) ==
  [kind |-> "returned",
   value |-> Str("Error getting project stats: " \o formatError(legs[l].v))]

CombinesBoth ==
  /\ statsOutput.kind = "returned"
  /\ statsOutput.value.t = "json"
  /\ \A k \in {"id", "name", "status"} :
       Prop(Prop(statsOutput.value.v, "project"), k) = Prop(legs["get"].v, k)
  /\ \A k \in {"totalTasks", "completedTasks", "openTasks", "blockedTasks",
               "byStatus", "byPriority"} :
       Prop(Prop(statsOutput.value.v, "stats"), k) = Prop(legs["stats"].v, k)

C26_FanOutFirstFailure ==
  [][ /\ (joined.st = "none" /\ joined'.st = "pending")
           => \A l \in Legs : legs'[l].st = "pending"
      /\ \A l \in Legs :
           (joined.st = "pending" /\ legs[l].st = "pending"
              /\ legs'[l].st = "rejected")
             => (statsOutput = FirstFailureText(l))'
      /\ (joined.st = "pending" /\ \A l \in Legs : legs'[l].st = "fulfilled")
           => CombinesBoth'
      /\ (joined.st = "pending" /\ joined'.st = "pending")
           => statsOutput' = NoOutcome
      /\ statsOutput # NoOutcome => statsOutput' = statsOutput ]_vars

\* projects.stats failed first and projects.get failed afterwards with
\* another error: the handler returned the error of projects.stats
C26_Witness ==
  /\ legs["get"].st = "rejected" /\ legs["stats"].st = "rejected"
  /\ formatError(legs["get"].v) # formatError(legs["stats"].v)
  /\ statsOutput =
       [kind |-> "returned",
        value |-> Str("Error getting project stats: "
                      \o formatError(legs["stats"].v))]

\* C30: when two add_tech_command invocations for the same project have
\* both reported success, the stored command list of the project contains
\* the command of each
Succeeded(s) ==
  /\ techCalls[s].pc = "done"
  /\ techCalls[s].out.value.t = "json"

StoredCommands(p) ==
  LET c == Prop(techStore[p], "commands")
  IN  IF c.t = "array" THEN { c.a[i] : i \in 1..Len(c.a) } ELSE {}

C30_NoLostUpdate ==
  \A s, r \in Slots :
    (s # r /\ Succeeded(s) /\ Succeeded(r)
       /\ techCalls[s].params.projectId = techCalls[r].params.projectId)
      => { NewCommand(techCalls[s].params), NewCommand(techCalls[r].params) }
           \subseteq StoredCommands(techCalls[s].params.projectId)

====
